---- MODULE Spec2Model ----
(***************************************************************************)
(* The lazy-loading file tree of the editor: the FileSystem arena          *)
(* (src/state/filesystem.rs), the background directory scanners started by *)
(* load_folder, the bounded editor-event channel (src/state/events.rs),    *)
(* the UI loop that integrates scan results (src/app.rs) and the file-tree *)
(* traversal of the renderer (src/widgets/filetree.rs); and the Filetree   *)
(* service (src/filesystem/tree.rs) in the loop of src/main.rs.            *)
(***************************************************************************)
EXTENDS Integers, Sequences, FiniteSets, Bags, TLC

(***************************************************************************)
(* Bounds of the model.                                                    *)
(***************************************************************************)
\* load_folder calls in one run of Spec, the one made by State::new included
MaxScans == 3
\* load_folder calls in one run of SpecChan: one more than the channel holds
MaxChanScans == 65
\* height of the file-tree area of the terminal, in lines
AreaHeight == 3
\* The line budgets for which the traversal is compared with the full listing
MaxBudget == 8

(***************************************************************************)
(* Program constant.                                                       *)
(***************************************************************************)
\* tokio::sync::mpsc::channel(64)
Capacity == 64

(***************************************************************************)
(* Names are byte strings (sequences of byte values) and paths are         *)
(* sequences of names, so that the raw byte ordering of file names is      *)
(* computed and not assumed.                                               *)
(***************************************************************************)
n_project == <<112, 114, 111, 106, 101, 99, 116>>
n_empty == <<101, 109, 112, 116, 121>>
n_src == <<115, 114, 99>>
n_git == <<46, 103, 105, 116>>
n_a_txt == <<97, 46, 116, 120, 116>>
n_z_txt == <<122, 46, 116, 120, 116>>
n_HEAD == <<72, 69, 65, 68>>
n_a == <<97>>
n_b == <<98>>
n_C == <<67>>

ProjectRoot == <<n_project>>
EmptyRoot == <<n_empty>>
SrcDir == <<n_project, n_src>>
GitDir == <<n_project, n_git>>

Dir(name) == [name |-> name, is_dir |-> TRUE]
Reg(name) == [name |-> name, is_dir |-> FALSE]

\* The directories of the disk: what read_dir and next_entry yield for a path,
\* in the order the operating system lists the entries.
DiskEntries(path) ==
    CASE path = ProjectRoot -> <<Dir(n_src), Reg(n_a_txt), Dir(n_git)>>
      [] path = SrcDir -> <<Dir(n_b), Reg(n_z_txt), Dir(n_a), Reg(n_a_txt), Dir(n_C)>>
      [] path = GitDir -> <<Reg(n_HEAD)>>
      [] OTHER -> <<>>

(***************************************************************************)
(* Paths, names and their ordering.                                        *)
(***************************************************************************)
\* Path::file_name().unwrap_or_default(): the final component, or empty
FileName(path) == IF Len(path) = 0 THEN <<>> ELSE path[Len(path)]

\* Ord for byte strings: lexicographic, a proper prefix is smaller
RECURSIVE CmpBytes(_, _)
CmpBytes(a, b) ==
    IF Len(a) = 0 /\ Len(b) = 0 THEN "Equal"
    ELSE IF Len(a) = 0 THEN "Less"
    ELSE IF Len(b) = 0 THEN "Greater"
    ELSE IF Head(a) < Head(b) THEN "Less"
    ELSE IF Head(a) > Head(b) THEN "Greater"
    ELSE CmpBytes(Tail(a), Tail(b))

compare_names(a, b) == CmpBytes(FileName(a), FileName(b))

\* Vec::sort_by on records with a path field: a stable sort (insertion sort)
RECURSIVE InsertSorted(_, _)
InsertSorted(sorted, x) ==
    IF sorted = <<>> THEN <<x>>
    ELSE IF compare_names(x.path, sorted[Len(sorted)].path) = "Less"
         THEN Append(InsertSorted(SubSeq(sorted, 1, Len(sorted) - 1), x),
                     sorted[Len(sorted)])
         ELSE Append(sorted, x)

RECURSIVE SortedPrefix(_, _)
SortedPrefix(s, n) ==
    IF n = 0 THEN <<>> ELSE InsertSorted(SortedPrefix(s, n - 1), s[n])

\* A scanner that sends its lists in enumeration order, unsorted.
sort_by_nothing(s) == s

sort_by_name(s) == SortedPrefix(s, Len(s))

(***************************************************************************)
(* Records of the arena.                                                   *)
(***************************************************************************)
\* Folder::new
NewFolder(path) ==
    [path |-> path, name |-> FileName(path), child_files |-> <<>>,
     child_folders |-> <<>>, open |-> FALSE, init |-> FALSE]

\* File::new (the icon is derived from the path alone)
NewFile(path) == [path |-> path]

\* No folder is hidden.
HiddenNever(folder) == FALSE

\* Folder::hidden
hidden(folder) == folder.name = n_git

\* A constructor that already registers the root's path in folder_paths.
NewFileSystemRegistersRoot(root_path) ==
    [root |-> 1,
     folders |-> <<NewFolder(root_path)>>,
     files |-> <<>>,
     open_buffers |-> {},
     file_paths |-> <<>>,
     folder_paths |-> [path \in {root_path} |-> 1]]

\* FileSystem::new. The slot maps are sequences: without removal a key is the
\* position of its record and an insertion appends.
NewFileSystem(root_path) ==
    [root |-> 1,
     folders |-> <<NewFolder(root_path)>>,
     files |-> <<>>,
     open_buffers |-> {},
     file_paths |-> <<>>,
     folder_paths |-> <<>>]

\* HashMap::insert
MapInsert(map, key, value) ==
    [k \in (DOMAIN map) \cup {key} |-> IF k = key THEN value ELSE map[k]]

\* Keys that are one slot ahead of the records inserted.
FreshKeysAhead(held, count) == [i \in 1..count |-> held + i + 1]

\* Vec<File>/Vec<Folder> -> the keys of `count` insertions into a slot map
\* that holds `held` records
FreshKeys(held, count) == [i \in 1..count |-> held + i]

(***************************************************************************)
(* FileSystem::init_folder.                                                *)
(***************************************************************************)
\* The same without the guard on the init flag.
InitFolderNoGuard(fs, id, files, folders) ==
    LET file_ids == FreshKeys(Len(fs.files), Len(files))
        folder_ids == FreshKeys(Len(fs.folders), Len(folders))
        inserted == fs.folders \o folders
    IN  [fs EXCEPT
            !.files = fs.files \o files,
            !.folders = [inserted EXCEPT ![id].child_files = file_ids,
                                         ![id].child_folders = folder_ids,
                                         ![id].init = TRUE],
            !.folder_paths = MapInsert(fs.folder_paths, fs.folders[id].path, id)]

\* The children and the flag written to the root record instead of `id`.
InitFolderIntoRoot(fs, id, files, folders) ==
    IF fs.folders[id].init THEN fs
    ELSE LET file_ids == FreshKeys(Len(fs.files), Len(files))
             folder_ids == FreshKeys(Len(fs.folders), Len(folders))
             inserted == fs.folders \o folders
         IN  [fs EXCEPT
                 !.files = fs.files \o files,
                 !.folders = [inserted EXCEPT ![fs.root].child_files = file_ids,
                                              ![fs.root].child_folders = folder_ids,
                                              ![id].init = TRUE],
                 !.folder_paths = MapInsert(fs.folder_paths, fs.folders[id].path, id)]

\* A later result merged into the children the folder already has.
InitFolderMerges(fs, id, files, folders) ==
    LET added == InitFolderNoGuard(fs, id, files, folders)
    IN  IF ~fs.folders[id].init THEN added
        ELSE [added EXCEPT
                 !.folders[id].child_files = fs.folders[id].child_files \o @,
                 !.folders[id].child_folders = fs.folders[id].child_folders \o @]

\* The children recorded without the init flag being set.
InitFolderLeavesFlag(fs, id, files, folders) ==
    IF fs.folders[id].init THEN fs
    ELSE [InitFolderNoGuard(fs, id, files, folders) EXCEPT !.folders[id].init = FALSE]

\* The guard tests for children already present instead of the init flag.
InitFolderGuardOnChildren(fs, id, files, folders) ==
    IF fs.folders[id].child_files # <<>> \/ fs.folders[id].child_folders # <<>>
    THEN fs
    ELSE InitFolderNoGuard(fs, id, files, folders)

\* An init_folder that registers the path of every child folder it inserts.
InitFolderRegistersChildren(fs, id, files, folders) ==
    IF fs.folders[id].init THEN fs
    ELSE LET file_ids == FreshKeys(Len(fs.files), Len(files))
             folder_ids == FreshKeys(Len(fs.folders), Len(folders))
             inserted == fs.folders \o folders
             own == MapInsert(fs.folder_paths, fs.folders[id].path, id)
         IN  [fs EXCEPT
                 !.files = fs.files \o files,
                 !.folders = [inserted EXCEPT ![id].child_files = file_ids,
                                              ![id].child_folders = folder_ids,
                                              ![id].init = TRUE],
                 !.folder_paths =
                     [k \in (DOMAIN own) \cup {folders[i].path : i \in 1..Len(folders)} |->
                         IF k \in DOMAIN own THEN own[k]
                         ELSE folder_ids[CHOOSE i \in 1..Len(folders) : folders[i].path = k]]]

init_folder(fs, id, files, folders) ==
    IF fs.folders[id].init THEN fs
    ELSE LET file_ids == FreshKeys(Len(fs.files), Len(files))
             folder_ids == FreshKeys(Len(fs.folders), Len(folders))
             inserted == fs.folders \o folders
         IN  [fs EXCEPT
                 !.files = fs.files \o files,
                 !.folders = [inserted EXCEPT ![id].child_files = file_ids,
                                              ![id].child_folders = folder_ids,
                                              ![id].init = TRUE],
                 !.folder_paths = MapInsert(fs.folder_paths, fs.folders[id].path, id)]

(***************************************************************************)
(* Filetree (src/filesystem/tree.rs), the tree service of src/main.rs. Its *)
(* record has the stores of the arena under the same names, so the         *)
(* traversal and the scanner below serve both services: load_folder and    *)
(* recurse_lines of tree.rs are the text of their FileSystem and FileTree  *)
(* counterparts.                                                           *)
(***************************************************************************)
\* Filetree::new for the current directory `path`
NewFiletree(path) ==
    [open |-> FALSE,
     width |-> 40,
     root |-> 1,
     folders |-> <<NewFolder(path)>>,
     files |-> <<>>,
     paths |-> <<>>]

\* Filetree::init_folder
Filetree_init_folder(ft, id, files, folders) ==
    LET file_ids == FreshKeys(Len(ft.files), Len(files))
        folder_ids == FreshKeys(Len(ft.folders), Len(folders))
        inserted == ft.folders \o folders
    IN  [ft EXCEPT
            !.files = ft.files \o files,
            !.folders = [inserted EXCEPT ![id].child_files = file_ids,
                                         ![id].child_folders = folder_ids,
                                         ![id].init = TRUE],
            !.paths = MapInsert(ft.paths, ft.folders[id].path, id)]

(***************************************************************************)
(* FileTree::recurse_lines and FileTree::render.                           *)
(***************************************************************************)
\* Folder::line and File::line: indentation, open marker and name
FolderLine(folder, depth) ==
    [kind |-> "folder", indent |-> depth, open |-> folder.open, name |-> folder.name]

FileLine(file, depth) ==
    [kind |-> "file", indent |-> depth + 1, open |-> FALSE, name |-> FileName(file.path)]

\* u16::saturating_sub
saturating_sub(a, b) == IF a >= b THEN a - b ELSE 0

\* The `for file_id in &folder.child_files` loop from position i on. `out` is
\* the pair of in/out parameters (lines, remaining).
RECURSIVE FileLoop(_, _, _, _, _)
FileLoop(fs, ids, i, out, depth) ==
    IF i > Len(ids) \/ out.remaining = 0 THEN out
    ELSE FileLoop(fs, ids, i + 1,
                  [lines |-> Append(out.lines, FileLine(fs.files[ids[i]], depth)),
                   remaining |-> saturating_sub(out.remaining, 1)],
                  depth)

\* The `for folder_id in &folder.child_folders` loop from position i on, with
\* the file loop that follows it unless the folder loop returned.
RECURSIVE FolderLoop(_, _, _, _, _, _)
FolderLoop(fs, id, ids, i, out, depth) ==
    IF i > Len(ids) THEN FileLoop(fs, fs.folders[id].child_files, 1, out, depth)
    ELSE IF out.remaining = 0 THEN out
    ELSE LET folder == fs.folders[ids[i]]
             pushed == [out EXCEPT !.lines = Append(@, FolderLine(folder, depth))]
             below == IF folder.open
                      THEN FolderLoop(fs, ids[i], folder.child_folders, 1, pushed, depth + 1)
                      ELSE pushed
         IN  IF hidden(folder)
             THEN FolderLoop(fs, id, ids, i + 1, out, depth)
             ELSE FolderLoop(fs, id, ids, i + 1,
                             [below EXCEPT !.remaining = saturating_sub(@, 1)], depth)

\* The file loop before the folder loop.
RecurseLinesFilesFirst(fs, id, out, depth) ==
    FolderLoop([fs EXCEPT !.folders[id].child_files = <<>>], id,
               fs.folders[id].child_folders, 1,
               FileLoop(fs, fs.folders[id].child_files, 1, out, depth), depth)

recurse_lines(fs, id, out, depth) ==
    FolderLoop(fs, id, fs.folders[id].child_folders, 1, out, depth)

\* FileTree::render: the lines given to the text widget for an area of `height`
RenderLines(fs, height) ==
    recurse_lines(fs, fs.root, [lines |-> <<>>, remaining |-> height], 0).lines

(***************************************************************************)
(* The directory scanner spawned by FileSystem::load_folder.               *)
(***************************************************************************)
\* A scanner that captures the root's path instead of the path of `id`.
ScannerTaskOfRoot(fs, id) ==
    [id |-> id, path |-> fs.folders[fs.root].path, pc |-> "read_dir",
     files |-> <<>>, folders |-> <<>>]

\* The task as spawned: id and path captured by value, both lists empty
ScannerTask(fs, id) ==
    [id |-> id, path |-> fs.folders[id].path, pc |-> "read_dir",
     files |-> <<>>, folders |-> <<>>]

\* The two branches of the is_dir test exchanged.
EnumeratedKindsSwapped(path, seen) ==
    LET entries == SubSeq(DiskEntries(path), 1, seen)
        dirs == SelectSeq(entries, LAMBDA e : e.is_dir)
        regs == SelectSeq(entries, LAMBDA e : ~e.is_dir)
    IN  [files |-> [i \in 1..Len(dirs) |-> NewFile(Append(path, dirs[i].name))],
         folders |-> [i \in 1..Len(regs) |-> NewFolder(Append(path, regs[i].name))]]

\* The `while let Ok(Some(entry))` loop over the first `seen` entries of the
\* directory: seen = all of them when the listing is exhausted, fewer when
\* next_entry returned an error after `seen` entries.
Enumerated(path, seen) ==
    LET entries == SubSeq(DiskEntries(path), 1, seen)
        dirs == SelectSeq(entries, LAMBDA e : e.is_dir)
        regs == SelectSeq(entries, LAMBDA e : ~e.is_dir)
    IN  [files |-> [i \in 1..Len(regs) |-> NewFile(Append(path, regs[i].name))],
         folders |-> [i \in 1..Len(dirs) |-> NewFolder(Append(path, dirs[i].name))]]

\* What the scanner holds after the loop and the two sort_by calls
ScanResult(path, seen) ==
    [files |-> sort_by_name(Enumerated(path, seen).files),
     folders |-> sort_by_name(Enumerated(path, seen).folders)]

\* EditorEvent::FolderLoaded { id, files, folders }
FolderLoaded(task) == [id |-> task.id, files |-> task.files, folders |-> task.folders]

\* A channel that takes one message more than its capacity.
HasRoomOffByOne(q) == Len(q) <= Capacity

\* Sender::send completes only while the channel holds fewer than its capacity
HasRoom(q) == Len(q) < Capacity

(***************************************************************************)
(* The text buffer (ropey::Rope) of src/main.rs. Chars are code points and *)
(* char indices start at 0, as in the code. A rope is its text with the    *)
(* line-break feature of the ropey build: with cr_lines a carriage return  *)
(* that no line feed follows ends a line; a line feed always does, and     *)
(* CR LF is one line break.                                                *)
(***************************************************************************)
LF == 10
CR == 13
c_a == 97

\* Rope::from(content)
RopeFrom(content, cr_lines) == [text |-> content, cr_lines |-> cr_lines]

\* Rope::len_chars
len_chars(rope) == Len(rope.text)

\* Rope::char
char(rope, idx) == rope.text[idx + 1]

\* The char at idx is the last char of a line break
EndsLine(rope, idx) ==
    \/ char(rope, idx) = LF
    \/ /\ char(rope, idx) = CR
       /\ rope.cr_lines
       /\ ~(idx + 1 < len_chars(rope) /\ char(rope, idx + 1) = LF)

LineEnds(rope) == {idx \in 0..(len_chars(rope) - 1) : EndsLine(rope, idx)}

\* Rope::len_lines: one more than the line breaks
len_lines(rope) == Cardinality(LineEnds(rope)) + 1

\* Rope::line_to_char: the index of the first char of line y; the line past
\* the last one starts at the end of the text
line_to_char(rope, y) ==
    IF y = 0 THEN 0
    ELSE IF y >= len_lines(rope) THEN len_chars(rope)
    ELSE 1 + CHOOSE idx \in LineEnds(rope) :
                 Cardinality({j \in LineEnds(rope) : j <= idx}) = y

\* Rope::line: the chars of line y, its line break included
line(rope, y) ==
    SubSeq(rope.text, line_to_char(rope, y) + 1, line_to_char(rope, y + 1))

\* Rope::insert_char
rope_insert_char(rope, idx, c) ==
    [rope EXCEPT !.text = SubSeq(@, 1, idx) \o <<c>> \o SubSeq(@, idx + 1, Len(@))]

\* Rope::remove(idx..idx + 1)
rope_remove(rope, idx) ==
    [rope EXCEPT !.text = SubSeq(@, 1, idx) \o SubSeq(@, idx + 2, Len(@))]

Min(a, b) == IF a <= b THEN a ELSE b

(***************************************************************************)
(* usize. The checker's integers do not reach 2^64, so a usize is a record *)
(* of two small numbers: [wrapped |-> FALSE, value |-> n] is n, and        *)
(* [wrapped |-> TRUE, value |-> n], with n > 0, is 2^64 - n, the value a   *)
(* subtraction that went n below zero wraps to.                            *)
(***************************************************************************)
Usize(n) == [wrapped |-> FALSE, value |-> n]

\* a - b for a small number b
usize_sub(a, b) ==
    IF a.wrapped THEN [a EXCEPT !.value = a.value + b]
    ELSE IF a.value >= b THEN [a EXCEPT !.value = a.value - b]
    ELSE [wrapped |-> TRUE, value |-> b - a.value]

\* a - b overflows
usize_sub_overflows(a, b) == ~a.wrapped /\ a.value < b

\* usize::min(a, n) for a small number n
usize_min(a, n) == IF a.wrapped THEN n ELSE Min(a.value, n)

(***************************************************************************)
(* Cursor (src/cursor.rs).                                                 *)
(***************************************************************************)
\* Cursor::default
NewCursor == [x |-> 0, y |-> 0, preferred_x |-> 0]

\* Cursor::cursor_char_index
cursor_char_index(cursor, rope) == line_to_char(rope, cursor.y) + cursor.x

\* Cursor::last_valid_line_index
last_valid_line_index(cursor, rope) ==
    LET l == line(rope, cursor.y)
        length == Len(l)
    IN  IF length > 0 /\ l[length] = LF
        THEN IF length - 1 > 0 /\ l[length - 1] = CR THEN length - 2 ELSE length - 1
        ELSE length

\* Cursor::move_to_preferred_x
move_to_preferred_x(cursor, rope) ==
    [cursor EXCEPT !.x = Min(cursor.preferred_x, last_valid_line_index(cursor, rope))]

\* Cursor::move_line_end
move_line_end(cursor, rope) ==
    LET last == last_valid_line_index(cursor, rope)
    IN  [cursor EXCEPT !.x = last, !.preferred_x = last]

\* Cursor::move_line_start
move_line_start(cursor, rope) == [cursor EXCEPT !.x = 0, !.preferred_x = 0]

\* Cursor::move_left
move_left(cursor, rope) ==
    IF cursor.x > 0
    THEN [cursor EXCEPT !.x = cursor.x - 1, !.preferred_x = cursor.x - 1]
    ELSE IF cursor.y > 0
    THEN move_line_end([cursor EXCEPT !.y = cursor.y - 1], rope)
    ELSE cursor

\* Cursor::move_right
move_right(cursor, rope) ==
    LET last == last_valid_line_index(cursor, rope)
        moved == IF cursor.x < last
                 THEN [cursor EXCEPT !.x = cursor.x + 1]
                 ELSE IF cursor.y < len_lines(rope) - 1
                 THEN [cursor EXCEPT !.y = cursor.y + 1, !.x = 0]
                 ELSE cursor
    IN  [moved EXCEPT !.preferred_x = moved.x]

\* Cursor::move_up
move_up(cursor, rope) ==
    IF cursor.y > 0
    THEN move_to_preferred_x([cursor EXCEPT !.y = cursor.y - 1], rope)
    ELSE cursor

\* Cursor::move_down
move_down(cursor, rope) ==
    IF cursor.y < len_lines(rope) - 1
    THEN move_to_preferred_x([cursor EXCEPT !.y = cursor.y + 1], rope)
    ELSE cursor

\* Cursor::set_position. x is a usize (see usize_sub)
set_position(cursor, x, y, rope) ==
    IF y >= len_lines(rope)
    THEN move_line_end([cursor EXCEPT !.y = len_lines(rope) - 1], rope)
    ELSE LET at == [cursor EXCEPT !.y = y]
             new_x == usize_min(x, last_valid_line_index(at, rope))
         IN  [at EXCEPT !.x = new_x, !.preferred_x = new_x]

\* Cursor::insert_char; the result is the pair of the two &mut parameters
insert_char(cursor, rope, c) ==
    LET inserted == rope_insert_char(rope, cursor_char_index(cursor, rope), c)
    IN  [cursor |-> move_right(cursor, inserted), rope |-> inserted]

\* Cursor::delete_prev_char
delete_prev_char(cursor, rope) ==
    LET index == cursor_char_index(cursor, rope)
    IN  IF index > 0
        THEN LET removed == rope_remove(rope, index - 1)
             IN  [cursor |-> move_left(cursor, removed), rope |-> removed]
        ELSE [cursor |-> cursor, rope |-> rope]

\* Cursor::delete_next_char
delete_next_char(cursor, rope) ==
    LET index == cursor_char_index(cursor, rope)
    IN  IF index < len_chars(rope)
        THEN [cursor |-> cursor, rope |-> rope_remove(rope, index)]
        ELSE [cursor |-> cursor, rope |-> rope]

(***************************************************************************)
(* Cmdline (src/cmdline.rs).                                               *)
(***************************************************************************)
\* Cmdline::default
NewCmdline == [command |-> <<>>, cursor |-> 0, open |-> FALSE]

\* Cmdline::open
Cmdline_open(cmdline) == [cmdline EXCEPT !.open = TRUE]

\* A close that keeps the text and the cursor of the command.
Cmdline_closeKeepsCommand(cmdline) == [cmdline EXCEPT !.open = FALSE]

\* Cmdline::close
Cmdline_close(cmdline) == [cmdline EXCEPT !.open = FALSE, !.command = <<>>, !.cursor = 0]

\* Cmdline::execute
Cmdline_execute(cmdline) == Cmdline_close(cmdline)

\* Cmdline::remove_char
remove_char(cmdline, idx) ==
    [cmdline EXCEPT !.command = SubSeq(@, 1, idx) \o SubSeq(@, idx + 2, Len(@))]

\* A key event: its code and, for KeyCode::Char, its char (0 otherwise)
Key(code) == [code |-> code, c |-> 0]
CharKey(c) == [code |-> "Char", c |-> c]

\* Cmdline::handle_key_event: the command line afterwards and the returned flag
Cmdline_handle_key_event(cmdline, key_event) ==
    IF ~cmdline.open THEN [cmdline |-> cmdline, handled |-> FALSE]
    ELSE [handled |-> TRUE,
          cmdline |->
            CASE key_event.code = "Esc" -> Cmdline_close(cmdline)
              [] key_event.code = "Enter" -> Cmdline_execute(cmdline)
              [] key_event.code = "Backspace" ->
                    IF cmdline.cursor > 0
                    THEN [remove_char(cmdline, cmdline.cursor - 1)
                            EXCEPT !.cursor = cmdline.cursor - 1]
                    ELSE cmdline
              [] key_event.code = "Left" ->
                    IF cmdline.cursor > 0
                    THEN [cmdline EXCEPT !.cursor = cmdline.cursor - 1]
                    ELSE cmdline
              [] key_event.code = "Right" ->
                    IF cmdline.cursor < Len(cmdline.command)
                    THEN [cmdline EXCEPT !.cursor = cmdline.cursor + 1]
                    ELSE cmdline
              [] key_event.code = "Delete" ->
                    IF cmdline.cursor < Len(cmdline.command)
                    THEN remove_char(cmdline, cmdline.cursor)
                    ELSE cmdline
              [] key_event.code = "Home" -> [cmdline EXCEPT !.cursor = 0]
              [] key_event.code = "End" -> [cmdline EXCEPT !.cursor = Len(cmdline.command)]
              [] key_event.code = "Char" ->
                    [cmdline EXCEPT
                        !.command = SubSeq(@, 1, cmdline.cursor) \o <<key_event.c>>
                                    \o SubSeq(@, cmdline.cursor + 1, Len(@)),
                        !.cursor = cmdline.cursor + 1]
              [] OTHER -> cmdline]

(***************************************************************************)
(* App (src/main.rs): the editor fields and the key and mouse handlers.    *)
(* The handlers work on the pair [app, filetree]: the key f toggles        *)
(* Filetree::open, and the click reads it.                                 *)
(***************************************************************************)
\* App::new, then main with the content of the file argument (the empty rope
\* without one).
NewApp(content, cr_lines) ==
    [cursor_margin_y |-> 5,
     exit |-> FALSE,
     mode |-> "Normal",
     cmdline |-> NewCmdline,
     cursor |-> NewCursor,
     rope |-> RopeFrom(content, cr_lines),
     screen_y |-> 0,
     scroll_y |-> 0,
     panicked |-> FALSE]

\* App::set_mode
set_mode(a, mode) == [a EXCEPT !.mode = mode]

\* App::exit
exit(a) == [a EXCEPT !.exit = TRUE]

\* Cursor methods that leave the rope alone, applied to the App's fields
WithCursor(st, cursor) == [st EXCEPT !.app.cursor = cursor]

\* Cursor methods that edit the rope, applied to the App's fields
WithEdit(st, edit) == [st EXCEPT !.app.cursor = edit.cursor, !.app.rope = edit.rope]

\* App::handle_normal_mode_key_event
handle_normal_mode_key_event(st, key_event) ==
    LET a == st.app
        c == key_event.c
    IN  IF key_event.code # "Char" THEN st
        ELSE CASE c = 102 -> [st EXCEPT !.filetree.open = ~@]
               [] c = 105 -> [st EXCEPT !.app = set_mode(a, "Insert")]
               [] c = 104 -> WithCursor(st, move_left(a.cursor, a.rope))
               [] c = 106 -> WithCursor(st, move_down(a.cursor, a.rope))
               [] c = 107 -> WithCursor(st, move_up(a.cursor, a.rope))
               [] c = 108 -> WithCursor(st, move_right(a.cursor, a.rope))
               [] c = 48 -> WithCursor(st, move_line_start(a.cursor, a.rope))
               [] c = 36 -> WithCursor(st, move_line_end(a.cursor, a.rope))
               [] c = 118 -> [st EXCEPT !.app = set_mode(a, "Visual")]
               [] c = 97 ->
                    [st EXCEPT !.app = set_mode([a EXCEPT !.cursor = move_right(@, a.rope)],
                                                "Insert")]
               [] c = 65 ->
                    [st EXCEPT !.app = set_mode([a EXCEPT !.cursor = move_line_end(@, a.rope)],
                                                "Insert")]
               [] c = 73 ->
                    [st EXCEPT !.app = set_mode([a EXCEPT !.cursor = move_line_start(@, a.rope)],
                                                "Insert")]
               [] c = 58 -> [st EXCEPT !.app.cmdline = Cmdline_open(@)]
               [] OTHER -> st

\* A visual mode whose keys are handled as in normal mode.
handle_visual_mode_key_eventAsNormal(st, key_event) ==
    handle_normal_mode_key_event(st, key_event)

\* App::handle_visual_mode_key_event
handle_visual_mode_key_event(st, key_event) ==
    LET a == st.app
        c == key_event.c
    IN  CASE key_event.code = "Esc" -> [st EXCEPT !.app = set_mode(a, "Normal")]
          [] key_event.code = "Char" /\ c = 105 -> [st EXCEPT !.app = set_mode(a, "Insert")]
          [] key_event.code = "Char" /\ c = 104 -> WithCursor(st, move_left(a.cursor, a.rope))
          [] key_event.code = "Char" /\ c = 106 -> WithCursor(st, move_down(a.cursor, a.rope))
          [] key_event.code = "Char" /\ c = 107 -> WithCursor(st, move_up(a.cursor, a.rope))
          [] key_event.code = "Char" /\ c = 108 -> WithCursor(st, move_right(a.cursor, a.rope))
          [] key_event.code = "Char" /\ c = 48 ->
                WithCursor(st, move_line_start(a.cursor, a.rope))
          [] key_event.code = "Char" /\ c = 36 ->
                WithCursor(st, move_line_end(a.cursor, a.rope))
          [] OTHER -> st

\* App::handle_insert_mode_key_event
handle_insert_mode_key_event(st, key_event) ==
    LET a == st.app
        code == key_event.code
    IN  CASE code = "Esc" -> [st EXCEPT !.app = set_mode(a, "Normal")]
          [] code = "Char" -> WithEdit(st, insert_char(a.cursor, a.rope, key_event.c))
          [] code = "Enter" -> WithEdit(st, insert_char(a.cursor, a.rope, LF))
          [] code = "Backspace" -> WithEdit(st, delete_prev_char(a.cursor, a.rope))
          [] code = "Delete" -> WithEdit(st, delete_next_char(a.cursor, a.rope))
          [] code = "Right" -> WithCursor(st, move_right(a.cursor, a.rope))
          [] code = "Left" -> WithCursor(st, move_left(a.cursor, a.rope))
          [] code = "Up" -> WithCursor(st, move_up(a.cursor, a.rope))
          [] code = "Down" -> WithCursor(st, move_down(a.cursor, a.rope))
          [] code = "Home" -> WithCursor(st, move_line_start(a.cursor, a.rope))
          [] code = "End" -> WithCursor(st, move_line_end(a.cursor, a.rope))
          [] OTHER -> st

\* A handler that hands the key to the mode's handler also when the command
\* line took it.
App_handle_key_eventFallsThrough(st, key_event) ==
    LET exiting == IF key_event.code = "Tab" THEN [st EXCEPT !.app = exit(@)] ELSE st
        captured == Cmdline_handle_key_event(exiting.app.cmdline, key_event)
        taken == [exiting EXCEPT !.app.cmdline = captured.cmdline]
    IN  CASE taken.app.mode = "Insert" -> handle_insert_mode_key_event(taken, key_event)
          [] taken.app.mode = "Normal" -> handle_normal_mode_key_event(taken, key_event)
          [] taken.app.mode = "Visual" -> handle_visual_mode_key_event(taken, key_event)

\* App::handle_key_event
App_handle_key_event(st, key_event) ==
    LET exiting == IF key_event.code = "Tab" THEN [st EXCEPT !.app = exit(@)] ELSE st
        captured == Cmdline_handle_key_event(exiting.app.cmdline, key_event)
    IN  IF captured.handled
        THEN [exiting EXCEPT !.app.cmdline = captured.cmdline]
        ELSE CASE exiting.app.mode = "Insert" -> handle_insert_mode_key_event(exiting, key_event)
               [] exiting.app.mode = "Normal" -> handle_normal_mode_key_event(exiting, key_event)
               [] exiting.app.mode = "Visual" -> handle_visual_mode_key_event(exiting, key_event)

\* (n as f32).log10() as usize, for n >= 1
RECURSIVE log10_floor(_)
log10_floor(n) == IF n < 10 THEN 0 ELSE 1 + log10_floor(n \div 10)

\* App::numbers_gutter_width
numbers_gutter_width(a) ==
    LET digits == log10_floor(len_lines(a.rope))
    IN  IF 4 >= digits THEN 4 ELSE digits

\* App::x_margin
x_margin(a) == 2 + numbers_gutter_width(a) + 2

\* App::filetree_offset
filetree_offset(st) == IF st.filetree.open THEN st.filetree.width + 1 ELSE 0

\* The first argument of set_position in App::handle_term_event:
\* x - self.x_margin() - self.filetree_offset()
ClickX(st, column) ==
    usize_sub(usize_sub(Usize(column), x_margin(st.app)), filetree_offset(st))

\* One of the two subtractions overflows
ClickOverflows(st, column) ==
    \/ usize_sub_overflows(Usize(column), x_margin(st.app))
    \/ usize_sub_overflows(usize_sub(Usize(column), x_margin(st.app)), filetree_offset(st))

\* App::handle_term_event for MouseEventKind::Down(MouseButton::Left).
\* overflow_checks is the build profile: with it an integer overflow panics,
\* without it the result wraps.
handle_left_click(st, column, row, overflow_checks) ==
    IF ClickOverflows(st, column) /\ overflow_checks
    THEN [st EXCEPT !.app.panicked = TRUE]
    ELSE WithCursor(st, set_position(st.app.cursor, ClickX(st, column),
                                     row + st.app.scroll_y, st.app.rope))

\* The autoscroll of App::render (and of Pane::render, the same text) for a
\* viewport of line_count lines: the new scroll_y
autoscroll(cursor_y, scroll_y, cursor_margin_y, line_count) ==
    IF cursor_y < scroll_y + cursor_margin_y
    THEN saturating_sub(cursor_y, cursor_margin_y)
    ELSE IF cursor_y + cursor_margin_y >= scroll_y + line_count
    THEN cursor_y + 1 + cursor_margin_y - line_count
    ELSE scroll_y

(***************************************************************************)
(* State.                                                                  *)
(***************************************************************************)
VARIABLES
    filesystem,   \* the tree service: State::filesystem (App::filetree in SpecMain)
    tasks,        \* the bag of scanner tasks spawned and not yet finished
    queue,        \* the FolderLoaded events sent and not yet received
    ui,           \* the owning thread: "new" (in State::new), then the UI
                  \* loop at "draw" or "handle_events", or "exited"
    lines,        \* the lines FileTree::render produced in the last frame
    hist,          \* history of the run, read by the properties only
    app           \* the editor fields of main.rs's App (as constructed but in SpecEdit)

vars == <<filesystem, tasks, queue, ui, lines, hist, app>>

FolderIds == DOMAIN filesystem.folders
FileIds == DOMAIN filesystem.files

One(t) == SetToBag({t})

\* hist.loads: the ids given to load_folder, in call order
\* hist.failed: the ids of the scans whose read_dir failed
\* hist.late_loads: the ids given to load_folder after a scan of another id failed
\* hist.first_event: for each id, the first event the consumer received for it
\* hist.later_events: the events received for an id after its first event
\* hist.retried: the ids given to load_folder after a scan of the same id failed
\* hist.full_load: load_folder was called while the channel held 64 events
\* hist.send_failed: the ids of the scans whose send failed
NoHistory ==
    [loads |-> <<>>, failed |-> {}, late_loads |-> {}, first_event |-> <<>>,
     later_events |-> {}, retried |-> {}, full_load |-> FALSE, send_failed |-> {}]

Dispatched(h, id) ==
    [h EXCEPT !.loads = Append(@, id),
              !.late_loads = IF h.failed \ {id} # {} THEN @ \cup {id} ELSE @,
              !.retried = IF id \in h.failed THEN @ \cup {id} ELSE @,
              !.full_load = @ \/ Len(queue) = Capacity]

Received(h, e) ==
    IF e.id \in DOMAIN h.first_event
    THEN [h EXCEPT !.later_events = @ \cup {e}]
    ELSE [h EXCEPT !.first_event = MapInsert(@, e.id, e)]

\* State::new after Events::new and FileSystem::new have returned: the empty
\* channel and the arena with its root, no task spawned yet
InitWith(root_path) ==
    /\ filesystem = NewFileSystem(root_path)
    /\ tasks = EmptyBag
    /\ queue = <<>>
    /\ ui = "new"
    /\ lines = <<>>
    /\ hist = NoHistory
    /\ app = NewApp(<<>>, TRUE)

Init == InitWith(ProjectRoot)

InitChan == InitWith(EmptyRoot)

(***************************************************************************)
(* Steps of a scanner task.                                                *)
(***************************************************************************)
\* A scanner that falls through to the send after a failed read_dir.
ReadDirFailSendsEmpty(t) ==
    /\ t.pc = "read_dir"
    /\ ui # "exited"
    /\ HasRoom(queue)
    /\ queue' = Append(queue, FolderLoaded(t))
    /\ tasks' = tasks (-) One(t)
    /\ hist' = [hist EXCEPT !.failed = @ \cup {t.id}]
    /\ UNCHANGED <<filesystem, ui, lines, app>>

\* tokio::fs::read_dir returns Err: the error is logged and the task ends
ReadDirFail(t) ==
    /\ t.pc = "read_dir"
    /\ tasks' = tasks (-) One(t)
    /\ hist' = [hist EXCEPT !.failed = @ \cup {t.id}]
    /\ UNCHANGED <<filesystem, queue, ui, lines, app>>

\* An enumeration that skips the entry whose read failed and goes on with the
\* entries after it.
ScanSkipsFailingEntry(t) ==
    /\ t.pc = "read_dir"
    /\ \E seen \in 0..Len(DiskEntries(t.path)) :
          LET all == ScanResult(t.path, Len(DiskEntries(t.path)))
              failing == Append(t.path, DiskEntries(t.path)[seen + 1].name)
              found == IF seen = Len(DiskEntries(t.path)) THEN all
                       ELSE [files |-> SelectSeq(all.files, LAMBDA f : f.path # failing),
                             folders |-> SelectSeq(all.folders, LAMBDA f : f.path # failing)]
          IN  tasks' = (tasks (-) One(t))
                       (+) One([t EXCEPT !.pc = "send",
                                         !.files = found.files,
                                         !.folders = found.folders])
    /\ UNCHANGED <<filesystem, queue, ui, lines, hist, app>>

\* A scanner that holds a reference to the arena and inserts what it found.
ScanWritesArena(t) ==
    /\ t.pc = "read_dir"
    /\ \E seen \in 0..Len(DiskEntries(t.path)) :
          LET found == ScanResult(t.path, seen)
          IN  /\ tasks' = (tasks (-) One(t))
                          (+) One([t EXCEPT !.pc = "send",
                                            !.files = found.files,
                                            !.folders = found.folders])
              /\ filesystem' = init_folder(filesystem, t.id, found.files, found.folders)
    /\ UNCHANGED <<queue, ui, lines, hist, app>>

\* read_dir returns Ok: the entries are enumerated and classified until the
\* listing ends or fails, and both lists are sorted
Scan(t) ==
    /\ t.pc = "read_dir"
    /\ \E seen \in 0..Len(DiskEntries(t.path)) :
          LET found == ScanResult(t.path, seen)
          IN  tasks' = (tasks (-) One(t))
                       (+) One([t EXCEPT !.pc = "send",
                                         !.files = found.files,
                                         !.folders = found.folders])
    /\ UNCHANGED <<filesystem, queue, ui, lines, hist, app>>

\* A scanner that stays at its send after the event went out, and sends again.
SendKeepsTask(t) ==
    /\ t.pc = "send"
    /\ ui # "exited"
    /\ HasRoom(queue)
    /\ queue' = Append(queue, FolderLoaded(t))
    /\ UNCHANGED <<filesystem, tasks, ui, lines, hist, app>>

\* sender.send(..).await completes: the event is in the channel, the task ends
Send(t) ==
    /\ t.pc = "send"
    /\ ui # "exited"
    /\ HasRoom(queue)
    /\ queue' = Append(queue, FolderLoaded(t))
    /\ tasks' = tasks (-) One(t)
    /\ UNCHANGED <<filesystem, ui, lines, hist, app>>

\* A scanner that starts the scan again when its send fails.
SendFailRetries(t) ==
    /\ t.pc = "send"
    /\ ui = "exited"
    /\ tasks' = (tasks (-) One(t)) (+) One(ScannerTask(filesystem, t.id))
    /\ hist' = [hist EXCEPT !.send_failed = @ \cup {t.id}]
    /\ UNCHANGED <<filesystem, queue, ui, lines, app>>

\* A send that stays suspended when the receiver is gone.
SendFailWaits(t) ==
    /\ t.pc = "send"
    /\ ui = "exited"
    /\ UNCHANGED vars

\* send returns Err because the receiver is gone: logged, the result dropped
SendFail(t) ==
    /\ t.pc = "send"
    /\ ui = "exited"
    /\ tasks' = tasks (-) One(t)
    /\ hist' = [hist EXCEPT !.send_failed = @ \cup {t.id}]
    /\ UNCHANGED <<filesystem, queue, ui, lines, app>>

(***************************************************************************)
(* Steps of the owning thread: State::new, then the UI loop (App::run).    *)
(***************************************************************************)
\* The rest of State::new: the root's scan is dispatched, then the loop starts
StateNew ==
    /\ ui = "new"
    /\ tasks' = tasks (+) One(ScannerTask(filesystem, filesystem.root))
    /\ hist' = Dispatched(hist, filesystem.root)
    /\ ui' = "draw"
    /\ UNCHANGED <<filesystem, queue, lines, app>>

\* A render that collapses every folder it has drawn.
DrawAndCollapse ==
    /\ ui = "draw"
    /\ lines' = RenderLines(filesystem, AreaHeight)
    /\ filesystem' = [filesystem EXCEPT
           !.folders = [id \in DOMAIN @ |-> [@[id] EXCEPT !.open = FALSE]]]
    /\ ui' = "handle_events"
    /\ UNCHANGED <<tasks, queue, hist, app>>

\* terminal.draw: FileTree::render into the tree area
Draw ==
    /\ ui = "draw"
    /\ lines' = RenderLines(filesystem, AreaHeight)
    /\ ui' = "handle_events"
    /\ UNCHANGED <<filesystem, tasks, queue, hist, app>>

\* A consumer that receives the event sent last instead of the one sent first.
HandleEditorEventTakesLast ==
    /\ ui = "handle_events"
    /\ queue # <<>>
    /\ LET event == queue[Len(queue)]
       IN  /\ filesystem' = init_folder(filesystem, event.id, event.files, event.folders)
           /\ hist' = Received(hist, event)
    /\ queue' = SubSeq(queue, 1, Len(queue) - 1)
    /\ ui' = "draw"
    /\ UNCHANGED <<tasks, lines, app>>

\* A consumer that leaves the event it has handled in the channel.
HandleEditorEventPeeks ==
    /\ ui = "handle_events"
    /\ queue # <<>>
    /\ LET event == Head(queue)
       IN  /\ filesystem' = init_folder(filesystem, event.id, event.files, event.folders)
           /\ hist' = Received(hist, event)
    /\ ui' = "draw"
    /\ UNCHANGED <<tasks, queue, lines, app>>

\* A handler that goes on to the next event without a draw in between.
HandleEditorEventStaysInHandler ==
    /\ ui = "handle_events"
    /\ queue # <<>>
    /\ LET event == Head(queue)
       IN  /\ filesystem' = init_folder(filesystem, event.id, event.files, event.folders)
           /\ hist' = Received(hist, event)
    /\ queue' = Tail(queue)
    /\ UNCHANGED <<tasks, ui, lines, app>>

\* select! takes the editor-event branch: handle_editor_event
HandleEditorEvent ==
    /\ ui = "handle_events"
    /\ queue # <<>>
    /\ LET event == Head(queue)
       IN  /\ filesystem' = init_folder(filesystem, event.id, event.files, event.folders)
           /\ hist' = Received(hist, event)
    /\ queue' = Tail(queue)
    /\ ui' = "draw"
    /\ UNCHANGED <<tasks, lines, app>>

\* select! takes the terminal branch: handle_term_event, which does nothing
HandleTermEvent ==
    /\ ui = "handle_events"
    /\ ui' = "draw"
    /\ UNCHANGED <<filesystem, tasks, queue, lines, hist, app>>

\* A load_folder that drops the call while a scan of the same id is in flight.
LoadFolderOnce(id, limit) ==
    /\ ui = "handle_events"
    /\ Len(hist.loads) < limit
    /\ tasks' = IF \E t \in BagToSet(tasks) : t.id = id
                THEN tasks
                ELSE tasks (+) One(ScannerTask(filesystem, id))
    /\ hist' = Dispatched(hist, id)
    /\ ui' = "draw"
    /\ UNCHANGED <<filesystem, queue, lines, app>>

\* A load_folder that marks the folder initialised when it dispatches the scan.
LoadFolderMarksInit(id, limit) ==
    /\ ui = "handle_events"
    /\ Len(hist.loads) < limit
    /\ tasks' = tasks (+) One(ScannerTask(filesystem, id))
    /\ filesystem' = [filesystem EXCEPT !.folders[id].init = TRUE]
    /\ hist' = Dispatched(hist, id)
    /\ ui' = "draw"
    /\ UNCHANGED <<queue, lines, app>>

\* A load_folder that waits for room in the channel before it spawns the scan.
LoadFolderAwaitsRoom(id, limit) ==
    /\ ui = "handle_events"
    /\ Len(hist.loads) < limit
    /\ HasRoom(queue)
    /\ tasks' = tasks (+) One(ScannerTask(filesystem, id))
    /\ hist' = Dispatched(hist, id)
    /\ ui' = "draw"
    /\ UNCHANGED <<filesystem, queue, lines, app>>

\* FileSystem::load_folder called by the handler of a terminal event: spawns
\* the scanner and returns. At most `limit` calls in a run.
LoadFolder(id, limit) ==
    /\ ui = "handle_events"
    /\ Len(hist.loads) < limit
    /\ tasks' = tasks (+) One(ScannerTask(filesystem, id))
    /\ hist' = Dispatched(hist, id)
    /\ ui' = "draw"
    /\ UNCHANGED <<filesystem, queue, lines, app>>

\* The key layer toggles the open flag of a folder of the tree, and loads the
\* folder when it opens while init is false.
ToggleOpen(id) ==
    /\ ui = "handle_events"
    /\ id # filesystem.root
    /\ LET folder == filesystem.folders[id]
           loads == ~folder.open /\ ~folder.init
       IN  /\ loads => Len(hist.loads) < MaxScans
           /\ filesystem' = [filesystem EXCEPT !.folders[id].open = ~@]
           /\ tasks' = IF loads THEN tasks (+) One(ScannerTask(filesystem, id)) ELSE tasks
           /\ hist' = IF loads THEN Dispatched(hist, id) ELSE hist
    /\ ui' = "draw"
    /\ UNCHANGED <<queue, lines, app>>

\* The exit flag is set while a terminal event is handled: the loop ends and
\* the receiver is dropped with the events it still holds
Exit ==
    /\ ui = "handle_events"
    /\ ui' = "exited"
    /\ queue' = <<>>
    /\ UNCHANGED <<filesystem, tasks, lines, hist, app>>

(***************************************************************************)
(* Specifications.                                                         *)
(***************************************************************************)
Next ==
    \/ StateNew
    \/ \E t \in BagToSet(tasks) : ReadDirFail(t)
    \/ \E t \in BagToSet(tasks) : Scan(t)
    \/ \E t \in BagToSet(tasks) : Send(t)
    \/ \E t \in BagToSet(tasks) : SendFail(t)
    \/ Draw
    \/ HandleEditorEvent
    \/ HandleTermEvent
    \/ \E id \in FolderIds : LoadFolder(id, MaxScans)
    \/ \E id \in FolderIds : ToggleOpen(id)
    \/ Exit

Spec == Init /\ [][Next]_vars

\* The program as src/app.rs has it: handle_term_event is empty, so no handler
\* toggles a folder.
NextApp ==
    \/ StateNew
    \/ \E t \in BagToSet(tasks) : ReadDirFail(t)
    \/ \E t \in BagToSet(tasks) : Scan(t)
    \/ \E t \in BagToSet(tasks) : Send(t)
    \/ \E t \in BagToSet(tasks) : SendFail(t)
    \/ Draw
    \/ HandleEditorEvent
    \/ HandleTermEvent
    \/ \E id \in FolderIds : LoadFolder(id, MaxScans)
    \/ Exit

SpecApp == Init /\ [][NextApp]_vars

\* The channel under load: a root directory without entries that opens every
\* time, loaded again and again, so that more scanners reach their send than
\* the channel has room for.
NextChan ==
    \/ StateNew
    \/ \E t \in BagToSet(tasks) : Scan(t)
    \/ \E t \in BagToSet(tasks) : Send(t)
    \/ \E t \in BagToSet(tasks) : SendFail(t)
    \/ Draw
    \/ HandleEditorEvent
    \/ HandleTermEvent
    \/ \E id \in FolderIds : LoadFolder(id, MaxChanScans)
    \/ Exit

SpecChan == InitChan /\ [][NextChan]_vars

\* The scans under fair scheduling: the state of SpecChan in which load_folder
\* has been called MaxChanScans times for the root and no scanner has run yet,
\* one more scan in flight than the channel has room for, and no further call.
InitLive ==
    /\ filesystem = NewFileSystem(EmptyRoot)
    /\ tasks = [t \in {ScannerTask(NewFileSystem(EmptyRoot), 1)} |-> MaxChanScans]
    /\ queue = <<>>
    /\ ui = "draw"
    /\ lines = <<>>
    /\ hist = [NoHistory EXCEPT !.loads = [i \in 1..MaxChanScans |-> 1]]
    /\ app = NewApp(<<>>, TRUE)

NextLive ==
    \/ \E t \in BagToSet(tasks) : ReadDirFail(t)
    \/ \E t \in BagToSet(tasks) : Scan(t)
    \/ \E t \in BagToSet(tasks) : Send(t)
    \/ \E t \in BagToSet(tasks) : SendFail(t)
    \/ Draw
    \/ HandleEditorEvent
    \/ HandleTermEvent
    \/ Exit

\* The runtime polls every spawned task that can make progress, the loop goes
\* on to the next draw, and select! takes the receive branch again and again
\* when it is ready again and again: it picks among the ready branches at
\* random. Nothing makes a terminal event arrive.
FairLive ==
    /\ WF_vars(\E t \in BagToSet(tasks) : ReadDirFail(t) \/ Scan(t))
    /\ WF_vars(\E t \in BagToSet(tasks) : Send(t))
    /\ WF_vars(\E t \in BagToSet(tasks) : SendFail(t))
    /\ WF_vars(Draw)
    /\ SF_vars(HandleEditorEvent)

SpecLive == InitLive /\ [][NextLive]_vars /\ FairLive

(***************************************************************************)
(* The program of src/main.rs: App with the Filetree service.              *)
(***************************************************************************)
\* App::new with the process started in /project
InitMain ==
    /\ filesystem = NewFiletree(ProjectRoot)
    /\ tasks = EmptyBag
    /\ queue = <<>>
    /\ ui = "new"
    /\ lines = <<>>
    /\ hist = NoHistory
    /\ app = NewApp(<<>>, TRUE)

\* main: app.filetree.load_root(), then App::run
MainLoadRoot ==
    /\ ui = "new"
    /\ tasks' = tasks (+) One(ScannerTask(filesystem, filesystem.root))
    /\ hist' = Dispatched(hist, filesystem.root)
    /\ ui' = "draw"
    /\ UNCHANGED <<filesystem, queue, lines, app>>

\* terminal.draw: App::render scrolls the buffer to the cursor and draws the
\* file tree only while it is open. The frame is one line (the lualine)
\* higher than the area of the file tree.
MainDraw ==
    /\ ui = "draw"
    /\ app' = [app EXCEPT
                   !.screen_y = AreaHeight + 1,
                   !.scroll_y = autoscroll(app.cursor.y, @, app.cursor_margin_y, AreaHeight + 1)]
    /\ lines' = IF filesystem.open THEN RenderLines(filesystem, AreaHeight) ELSE <<>>
    /\ ui' = "handle_events"
    /\ UNCHANGED <<filesystem, tasks, queue, hist>>

\* App::handle_editor_event
MainHandleEditorEvent ==
    /\ ui = "handle_events"
    /\ queue # <<>>
    /\ LET event == Head(queue)
       IN  /\ filesystem' = Filetree_init_folder(filesystem, event.id, event.files,
                                                 event.folders)
           /\ hist' = Received(hist, event)
    /\ queue' = Tail(queue)
    /\ ui' = "draw"
    /\ UNCHANGED <<tasks, lines, app>>

\* App::handle_term_event for an event other than the Tab key. toggles: the
\* event is the key f, pressed in normal mode with the command line closed;
\* every other event leaves the tree service as it is.
MainHandleTermEvent(toggles) ==
    /\ ui = "handle_events"
    /\ filesystem' = [filesystem EXCEPT !.open = IF toggles THEN ~@ ELSE @]
    /\ ui' = "draw"
    /\ UNCHANGED <<tasks, queue, lines, hist, app>>

\* Filetree::load_folder called again from a handler. At most MaxScans calls
\* in a run.
MainLoadFolder(id) ==
    /\ ui = "handle_events"
    /\ Len(hist.loads) < MaxScans
    /\ tasks' = tasks (+) One(ScannerTask(filesystem, id))
    /\ hist' = Dispatched(hist, id)
    /\ ui' = "draw"
    /\ UNCHANGED <<filesystem, queue, lines, app>>

\* The Tab key: App::exit ends the loop of App::run, the receiver is dropped
MainExit ==
    /\ ui = "handle_events"
    /\ ui' = "exited"
    /\ queue' = <<>>
    /\ UNCHANGED <<filesystem, tasks, lines, hist, app>>

NextMain ==
    \/ MainLoadRoot
    \/ \E t \in BagToSet(tasks) : ReadDirFail(t)
    \/ \E t \in BagToSet(tasks) : Scan(t)
    \/ \E t \in BagToSet(tasks) : Send(t)
    \/ \E t \in BagToSet(tasks) : SendFail(t)
    \/ MainDraw
    \/ MainHandleEditorEvent
    \/ \E toggles \in BOOLEAN : MainHandleTermEvent(toggles)
    \/ \E id \in FolderIds : MainLoadFolder(id)
    \/ MainExit

SpecMain == InitMain /\ [][NextMain]_vars

(***************************************************************************)
(* The editor of src/main.rs: the key and mouse handlers of App on the     *)
(* buffer of the file argument. The scanner of the root does not get to    *)
(* run in these behaviours: no key or mouse handler reads the records of   *)
(* the tree. The mouse wheel is left out: its handlers call                *)
(* Cursor::move_up_n and Cursor::move_down_n, which src/cursor.rs does not *)
(* define.                                                                 *)
(***************************************************************************)
\* The longest buffer and the longest command text
MaxRope == 3
MaxCmd == 2
\* The rows of the terminal a click can hit
MaxRow == 3

\* The chars of the buffers: a letter, line feed and carriage return
BufferChars == {c_a, LF, CR}

\* The buffers of at most n chars
Texts(n) == UNION {[1..k -> BufferChars] : k \in 0..n}

\* The keys: every code the handlers match on and one they do not (F1); the
\* chars bound in normal mode (f i h j k l 0 $ v a A I :) and one that is
\* not (x)
KeyChars == {102, 105, 104, 106, 107, 108, 48, 36, 118, 97, 65, 73, 58, 120}

Keys ==
    {Key(code) : code \in {"Esc", "Enter", "Backspace", "Left", "Right", "Up", "Down",
                           "Delete", "Home", "End", "Tab", "F1"}}
    \cup {CharKey(c) : c \in KeyChars}

\* The columns of a click: in the gutter (7), on the first column of the
\* text (8) and inside it (10); with the file tree open, in its panel (48)
\* and on the first column of the text (49)
Columns == {7, 8, 10, 48, 49}

\* The key enters text: into the command line, or into the buffer
EntersText(key_event) ==
    /\ key_event.code = "Char"
    /\ app.cmdline.open \/ app.mode = "Insert"

\* App::new and main up to App::run, with the file argument read
InitEdit ==
    /\ filesystem = NewFiletree(ProjectRoot)
    /\ tasks = EmptyBag
    /\ queue = <<>>
    /\ ui = "new"
    /\ lines = <<>>
    /\ hist = NoHistory
    /\ app \in {NewApp(content, cr_lines) :
                   content \in Texts(MaxRope), cr_lines \in BOOLEAN}

\* App::handle_term_event for a key press. Text is entered as the letter a,
\* into at most MaxRope chars of buffer and MaxCmd chars of command.
MainKeyEvent(key_event) ==
    /\ ui = "handle_events"
    /\ EntersText(key_event) => key_event.c = c_a
    /\ LET st == App_handle_key_event([app |-> app, filetree |-> filesystem], key_event)
       IN  /\ len_chars(st.app.rope) <= MaxRope
           /\ Len(st.app.cmdline.command) <= MaxCmd
           /\ app' = st.app
           /\ filesystem' = st.filetree
           /\ ui' = IF st.app.exit THEN "exited" ELSE "draw"
           /\ queue' = IF st.app.exit THEN <<>> ELSE queue
    /\ UNCHANGED <<tasks, lines, hist>>

\* App::handle_term_event for a press of the left mouse button. A panic ends
\* the process.
MainLeftClick(column, row) ==
    /\ ui = "handle_events"
    /\ \E overflow_checks \in BOOLEAN :
           LET st == handle_left_click([app |-> app, filetree |-> filesystem], column, row,
                                       overflow_checks)
           IN  /\ app' = st.app
               /\ ui' = IF st.app.panicked THEN "panicked" ELSE "draw"
    /\ UNCHANGED <<filesystem, tasks, queue, lines, hist>>

NextEdit ==
    \/ MainLoadRoot
    \/ MainDraw
    \/ \E key_event \in Keys : MainKeyEvent(key_event)
    \/ \E column \in Columns, row \in 0..MaxRow : MainLeftClick(column, row)

SpecEdit == InitEdit /\ [][NextEdit]_vars

(***************************************************************************)
(* The autoscroll of the rendering pass (src/main.rs 345-352, the same     *)
(* text in src/widgets/pane.rs 58-65), as a function of the cursor's row,  *)
(* the scroll offset of the last frame, the margin and the height of the   *)
(* area: the inputs are drawn at the start and one rendering pass applies  *)
(* it to an area of any height of at least one line.                       *)
(***************************************************************************)
\* The largest cursor row, scroll offset, margin and height of the area
MaxCursorY == 8
MaxScrollY == 8
MaxMargin == 5
MaxLineCount == 6

\* A buffer of y + 1 empty lines with the cursor on the last one, scrolled
\* to any offset by the mouse wheel, under any margin
InitScroll ==
    /\ filesystem = NewFiletree(ProjectRoot)
    /\ tasks = EmptyBag
    /\ queue = <<>>
    /\ ui = "draw"
    /\ lines = <<>>
    /\ hist = NoHistory
    /\ app \in {[NewApp([i \in 1..y |-> LF], TRUE) EXCEPT
                     !.cursor.y = y, !.scroll_y = scroll_y, !.cursor_margin_y = margin] :
                   y \in 0..MaxCursorY, scroll_y \in 0..MaxScrollY, margin \in 0..MaxMargin}

\* Widget::render on an area of line_count lines: the autoscroll
Render(line_count) ==
    /\ ui = "draw"
    /\ app' = [app EXCEPT
                   !.screen_y = line_count,
                   !.scroll_y = autoscroll(app.cursor.y, @, app.cursor_margin_y, line_count)]
    /\ ui' = "handle_events"
    /\ UNCHANGED <<filesystem, tasks, queue, lines, hist>>

NextScroll == \E line_count \in 1..MaxLineCount : Render(line_count)

SpecScroll == InitScroll /\ [][NextScroll]_vars

(***************************************************************************)
(* Vocabulary of the properties.                                           *)
(***************************************************************************)
Paths(records) == [i \in DOMAIN records |-> records[i].path]

ChildFilePaths(fs, id) ==
    [i \in DOMAIN fs.folders[id].child_files |-> fs.files[fs.folders[id].child_files[i]].path]

ChildFolderPaths(fs, id) ==
    [i \in DOMAIN fs.folders[id].child_folders |->
        fs.folders[fs.folders[id].child_folders[i]].path]

Names(paths) == [i \in DOMAIN paths |-> FileName(paths[i])]

ParentPath(path) == SubSeq(path, 1, Len(path) - 1)

\* The payloads a scan of a directory of the disk can produce
ScanPayloads ==
    {ScanResult(path, seen) : <<path, seen>> \in
        {pair \in {ProjectRoot, SrcDir, GitDir} \X (0..5) :
            pair[2] <= Len(DiskEntries(pair[1]))}}

\* This step is the consumer handling the event at the head of the channel
HandleStep ==
    /\ ui = "handle_events" /\ ui' = "draw"
    /\ queue # <<>> /\ queue' = Tail(queue)

\* This step is a scanner ending at a failed read_dir
ReadDirFailStep(t) ==
    /\ t.pc = "read_dir"
    /\ BagIn(t, tasks)
    /\ tasks' = tasks (-) One(t)

SamePayload(e1, e2) == e1.files = e2.files /\ e1.folders = e2.folders

(***************************************************************************)
(* C1. init_folder is idempotent per folder id: after the consumer's call  *)
(* init_folder(id, P1), a second call init_folder(id, P2) with any payload *)
(* P2 a scan can produce returns the arena unchanged, whatever P1 was and  *)
(* whether or not the first call was itself discarded by the guard.        *)
(***************************************************************************)
C1_InitFolderIdempotent ==
    [][HandleStep =>
          \A p2 \in ScanPayloads :
              init_folder(filesystem', Head(queue).id, p2.files, p2.folders) = filesystem']_vars

\* The consumer has called init_folder twice for one id with different payloads
C1_Witness ==
    \E e \in hist.later_events :
        /\ ~SamePayload(e, hist.first_event[e.id])
        /\ e.files # <<>>

(***************************************************************************)
(* C2. Once a folder's init flag is true it stays true in every later      *)
(* state and its child_files and child_folders never change again.         *)
(***************************************************************************)
C2_InitIsStable ==
    [][\A id \in FolderIds :
          filesystem.folders[id].init =>
              /\ id \in DOMAIN filesystem'.folders
              /\ filesystem'.folders[id].init
              /\ filesystem'.folders[id].child_files = filesystem.folders[id].child_files
              /\ filesystem'.folders[id].child_folders = filesystem.folders[id].child_folders]_vars

\* The root is initialised, a later event for the root was received and
\* another folder was integrated as well
C2_Witness ==
    /\ filesystem.folders[filesystem.root].init
    /\ \E e \in hist.later_events :
          e.id = filesystem.root /\ ~SamePayload(e, hist.first_event[e.id])
    /\ \E id \in FolderIds \ {filesystem.root} : filesystem.folders[id].init

(***************************************************************************)
(* C3. Fan-out safety: whenever the consumer has received events for two   *)
(* different folder ids, in whichever order, both folders have init = true *)
(* and the children of each are exactly the records of its own first       *)
(* event, which is a scan result of its own directory.                     *)
(***************************************************************************)
OwnChildren(id) ==
    LET folder == filesystem.folders[id]
        event == hist.first_event[id]
    IN  /\ folder.init
        /\ [i \in DOMAIN folder.child_files |-> filesystem.files[folder.child_files[i]]]
               = event.files
        /\ ChildFolderPaths(filesystem, id) = Paths(event.folders)
        /\ \E seen \in 0..Len(DiskEntries(folder.path)) :
               SamePayload(event, ScanResult(folder.path, seen))
        /\ \A i \in DOMAIN event.files : ParentPath(event.files[i].path) = folder.path
        /\ \A i \in DOMAIN event.folders : ParentPath(event.folders[i].path) = folder.path

C3_FanOutSafety ==
    \A x, y \in DOMAIN hist.first_event : x # y => OwnChildren(x) /\ OwnChildren(y)

\* load_folder was called for x before y, both scans found files, and the
\* event of y was integrated before the event of x
C3_Witness ==
    \E x, y \in FolderIds \ {filesystem.root} :
        /\ x # y
        /\ hist.loads = <<filesystem.root, x, y>>
        /\ {x, y} \subseteq DOMAIN hist.first_event
        /\ filesystem.folders[x].child_files # <<>>
        /\ filesystem.folders[y].child_files # <<>>
        /\ filesystem.folders[y].child_files[1] < filesystem.folders[x].child_files[1]

(***************************************************************************)
(* C4. Failure containment: a scan whose read_dir fails enqueues no event, *)
(* changes nothing in the arena and leaves the UI loop where it is, so a   *)
(* target with init = false keeps init = false and empty child lists; a    *)
(* folder whose scans failed and for which no event was received has       *)
(* init = false and no children. A scan of another folder dispatched later *)
(* still completes and is integrated (the witness).                        *)
(***************************************************************************)
C4_FailureContainment ==
    /\ [](\A id \in hist.failed \ DOMAIN hist.first_event :
             /\ ~filesystem.folders[id].init
             /\ filesystem.folders[id].child_files = <<>>
             /\ filesystem.folders[id].child_folders = <<>>)
    /\ [][\A t \in BagToSet(tasks) :
             ReadDirFailStep(t) =>
                 /\ queue' = queue
                 /\ filesystem' = filesystem
                 /\ ui' = ui
                 /\ ~filesystem.folders[t.id].init =>
                       /\ ~filesystem'.folders[t.id].init
                       /\ filesystem'.folders[t.id].child_files = <<>>
                       /\ filesystem'.folders[t.id].child_folders = <<>>]_vars

\* The scan of x failed and x is not initialised; y was loaded once, after
\* that failure, and its event has been integrated
C4_Witness ==
    \E x \in hist.failed : \E y \in hist.late_loads :
        /\ x # y
        /\ ~filesystem.folders[x].init
        /\ Cardinality({i \in DOMAIN hist.loads : hist.loads[i] = y}) = 1
        /\ y \in DOMAIN hist.first_event
        /\ filesystem.folders[y].init
        /\ filesystem.folders[y].child_files # <<>>

(***************************************************************************)
(* C5. No cross-contamination: the consumer's init_folder(X, ..) leaves    *)
(* every folder record other than X, every file record that existed and    *)
(* every folder_paths entry of another path as it was; it only adds        *)
(* records and updates X.                                                  *)
(***************************************************************************)
C5_NoCrossContamination ==
    [][HandleStep =>
          LET x == Head(queue).id
          IN  /\ \A id \in FolderIds \ {x} :
                    /\ id \in DOMAIN filesystem'.folders
                    /\ filesystem'.folders[id] = filesystem.folders[id]
              /\ x \in DOMAIN filesystem'.folders
              /\ filesystem'.folders[x].path = filesystem.folders[x].path
              /\ filesystem'.folders[x].open = filesystem.folders[x].open
              /\ \A id \in FileIds :
                    /\ id \in DOMAIN filesystem'.files
                    /\ filesystem'.files[id] = filesystem.files[id]
              /\ \A path \in DOMAIN filesystem.folder_paths :
                    path # filesystem.folders[x].path =>
                        /\ path \in DOMAIN filesystem'.folder_paths
                        /\ filesystem'.folder_paths[path] = filesystem.folder_paths[path]
              /\ filesystem'.root = filesystem.root]_vars

\* Two folders other than the root have been integrated while a folder was open
C5_Witness ==
    /\ \E x, y \in DOMAIN hist.first_event :
          x # y /\ x # filesystem.root /\ y # filesystem.root
    /\ \E id \in FolderIds : filesystem.folders[id].open
    /\ FileIds # {}

(***************************************************************************)
(* C6. Order preservation: in every initialised folder the child folders   *)
(* and the child files are each in non-decreasing order of raw file name,  *)
(* independently of each other; the folder integrated from the listing     *)
(* with folders b, a, C and files z.txt, a.txt resolves to the folders     *)
(* C, a, b and the files a.txt, z.txt.                                     *)
(***************************************************************************)
InNameOrder(paths) ==
    \A i, j \in DOMAIN paths : i < j => compare_names(paths[i], paths[j]) # "Greater"

AsSet(seq) == {seq[i] : i \in DOMAIN seq}

C6_OrderPreservation ==
    \A id \in FolderIds :
        LET folder_names == Names(ChildFolderPaths(filesystem, id))
            file_names == Names(ChildFilePaths(filesystem, id))
        IN  /\ InNameOrder(ChildFolderPaths(filesystem, id))
            /\ InNameOrder(ChildFilePaths(filesystem, id))
            /\ AsSet(folder_names) = {n_b, n_a, n_C} => folder_names = <<n_C, n_a, n_b>>
            /\ AsSet(file_names) = {n_z_txt, n_a_txt} => file_names = <<n_a_txt, n_z_txt>>

\* A folder integrated from the complete listing b, z.txt, a, a.txt, C
C6_Witness ==
    \E id \in DOMAIN hist.first_event :
        /\ filesystem.folders[id].init
        /\ DiskEntries(filesystem.folders[id].path)
               = <<Dir(n_b), Reg(n_z_txt), Dir(n_a), Reg(n_a_txt), Dir(n_C)>>
        /\ Names(ChildFolderPaths(filesystem, id)) = <<n_C, n_a, n_b>>
        /\ Names(ChildFilePaths(filesystem, id)) = <<n_a_txt, n_z_txt>>

(***************************************************************************)
(* C7. End-to-end scenario: when the consumer integrates, for the root     *)
(* /project, the event with files = [/project/a.txt] and folders =         *)
(* [/project/src], a traversal from the root with a line budget of 10      *)
(* yields exactly two lines, the folder line of src before the file line   *)
(* of a.txt, and the root's init flag is true.                             *)
(***************************************************************************)
ScenarioLines ==
    <<[kind |-> "folder", indent |-> 0, open |-> FALSE, name |-> n_src],
      [kind |-> "file", indent |-> 1, open |-> FALSE, name |-> n_a_txt]>>

C7_EndToEnd ==
    [][(/\ HandleStep
        /\ Head(queue).id = filesystem.root
        /\ ~filesystem.folders[filesystem.root].init
        /\ filesystem.folders[filesystem.root].path = ProjectRoot
        /\ Paths(Head(queue).files) = <<Append(ProjectRoot, n_a_txt)>>
        /\ Paths(Head(queue).folders) = <<Append(ProjectRoot, n_src)>>)
       => /\ RenderLines(filesystem', 10) = ScenarioLines
          /\ filesystem'.folders[filesystem'.root].init]_vars

\* The scenario's event was integrated for the root and the next frame drew
\* the two lines
C7_Witness ==
    /\ filesystem.root \in DOMAIN hist.first_event
    /\ Paths(hist.first_event[filesystem.root].files) = <<Append(ProjectRoot, n_a_txt)>>
    /\ Paths(hist.first_event[filesystem.root].folders) = <<Append(ProjectRoot, n_src)>>
    /\ filesystem.folders[filesystem.root].init
    /\ ui = "handle_events"
    /\ lines = ScenarioLines

(***************************************************************************)
(* C8. The traversal stops once the line budget is exhausted: for every    *)
(* budget n, recurse_lines started at the root with remaining = n appends  *)
(* at most n lines.                                                        *)
(***************************************************************************)
C8_BudgetRespected ==
    \A n \in 0..AreaHeight : Len(RenderLines(filesystem, n)) <= n

(***************************************************************************)
(* C9. The traversal is read-only on the arena: a render changes no flag,  *)
(* no child list, no record and no folder_paths entry.                     *)
(***************************************************************************)
C9_RenderIsReadOnly ==
    [][ui = "draw" /\ ui' = "handle_events" => filesystem' = filesystem]_vars

\* A frame was drawn from an arena with an initialised root and an open folder
C9_Witness ==
    /\ ui = "handle_events"
    /\ lines # <<>>
    /\ lines = RenderLines(filesystem, AreaHeight)
    /\ \E id \in FolderIds : filesystem.folders[id].open /\ filesystem.folders[id].init

(***************************************************************************)
(* C10. The channel never holds more than 64 events sent and not yet       *)
(* received, and while it holds 64 no scanner at its send completes: each  *)
(* stays a task at the send until the consumer has removed an event.       *)
(***************************************************************************)
C10_ChannelBounded ==
    /\ [](Len(queue) <= Capacity)
    /\ [][Len(queue) = Capacity =>
             \A t \in BagToSet(tasks) :
                 t.pc = "send" => CopiesIn(t, tasks') >= CopiesIn(t, tasks)]_vars

\* The channel is full and a scanner is suspended at its send
C10_Witness ==
    /\ Len(queue) = Capacity
    /\ \E t \in BagToSet(tasks) : t.pc = "send"
    /\ ui # "exited"

(***************************************************************************)
(* C11. load_folder never blocks the owning thread and never changes the   *)
(* arena: whenever the owning thread is in its handler (and the run has    *)
(* load_folder calls left) the call is enabled for every folder id, with   *)
(* the channel full and with scans in flight as well, and every call       *)
(* leaves the arena and the channel as they were and adds exactly one      *)
(* scanner task, for the id and the path of that folder.                   *)
(***************************************************************************)
C11_LoadFolderNeverBlocks ==
    /\ [](ui = "handle_events" /\ Len(hist.loads) < MaxChanScans =>
             \A id \in FolderIds : ENABLED LoadFolder(id, MaxChanScans))
    /\ [][\A id \in FolderIds :
             hist'.loads = Append(hist.loads, id) =>
                 /\ filesystem' = filesystem
                 /\ queue' = queue
                 /\ tasks' = tasks (+) One(ScannerTask(filesystem, id))]_vars

\* load_folder was called while the channel was full, the channel is still
\* full and the scan it spawned is in flight
C11_Witness ==
    /\ hist.full_load
    /\ Len(queue) = Capacity
    /\ \E t \in BagToSet(tasks) : t.pc = "read_dir"

(***************************************************************************)
(* C12. Immediately after FileSystem::new(root_path) the arena holds       *)
(* exactly one folder record, the root, with path root_path, init = false, *)
(* open = false and empty child lists; the file store, folder_paths,       *)
(* file_paths and open_buffers are empty; and new itself has dispatched no *)
(* scan: no task is in flight and no load_folder call was made.            *)
(***************************************************************************)
C12_NewFileSystem ==
    ui = "new" =>
        /\ DOMAIN filesystem.folders = {filesystem.root}
        /\ filesystem.folders[filesystem.root].path = ProjectRoot
        /\ filesystem.folders[filesystem.root].name = n_project
        /\ ~filesystem.folders[filesystem.root].init
        /\ ~filesystem.folders[filesystem.root].open
        /\ filesystem.folders[filesystem.root].child_files = <<>>
        /\ filesystem.folders[filesystem.root].child_folders = <<>>
        /\ DOMAIN filesystem.files = {}
        /\ DOMAIN filesystem.folder_paths = {}
        /\ DOMAIN filesystem.file_paths = {}
        /\ filesystem.open_buffers = {}
        /\ tasks = EmptyBag
        /\ queue = <<>>
        /\ hist.loads = <<>>

\* FileSystem::new has returned and State::new has not yet loaded the root
C12_Witness ==
    /\ ui = "new"
    /\ Len(filesystem.folders) = 1
    /\ ENABLED StateNew

(***************************************************************************)
(* C13. In every reachable state every folder with init = false has empty  *)
(* child_files and empty child_folders: the root before its first          *)
(* integration and every placeholder created from a scan of its parent.    *)
(***************************************************************************)
C13_UninitHasNoChildren ==
    \A id \in FolderIds :
        ~filesystem.folders[id].init =>
            /\ filesystem.folders[id].child_files = <<>>
            /\ filesystem.folders[id].child_folders = <<>>

\* The root and one of its placeholders are integrated with children, and
\* the placeholders the second integration created are not initialised
C13_Witness ==
    /\ filesystem.folders[filesystem.root].init
    /\ \E id \in FolderIds \ {filesystem.root} :
          /\ filesystem.folders[id].init
          /\ filesystem.folders[id].child_folders # <<>>
          /\ \A i \in DOMAIN filesystem.folders[id].child_folders :
                ~filesystem.folders[filesystem.folders[id].child_folders[i]].init

(***************************************************************************)
(* C14. In the Filetree service used by main.rs, when the consumer handles *)
(* a second FolderLoaded event for a folder id, the first one wins: the    *)
(* folder's child_files and child_folders after the second event are the   *)
(* ones recorded by the first, and the second event adds no record to the  *)
(* folder store or the file store.                                         *)
(***************************************************************************)
C14_FiletreeFirstEventWins ==
    [][HandleStep /\ Head(queue).id \in DOMAIN hist.first_event =>
          LET id == Head(queue).id
          IN  /\ filesystem'.folders[id].child_files = filesystem.folders[id].child_files
              /\ filesystem'.folders[id].child_folders = filesystem.folders[id].child_folders
              /\ Len(filesystem'.folders) = Len(filesystem.folders)
              /\ Len(filesystem'.files) = Len(filesystem.files)]_vars

(***************************************************************************)
(* C15. Each load_folder call causes at most one FolderLoaded event to be  *)
(* enqueued, carrying the id captured at dispatch. Scanner tasks are added *)
(* one per call; a step that enqueues, enqueues one event, that of one     *)
(* task at its send, and ends that task; a task that ends at its send      *)
(* while the receiver is alive has enqueued its event; a task that ends at *)
(* read_dir (the directory did not open) or after the receiver is gone     *)
(* (the send failed) has enqueued nothing. So for every id the tasks in    *)
(* flight and the events in the channel never outnumber the calls.         *)
(***************************************************************************)
CallsOf(id) == Cardinality({i \in DOMAIN hist.loads : hist.loads[i] = id})

TasksOf(id) ==
    LET of_id == {t \in BagToSet(tasks) : t.id = id}
        RECURSIVE Sum(_)
        Sum(ts) == IF ts = {} THEN 0
                   ELSE LET t == CHOOSE x \in ts : TRUE
                        IN  CopiesIn(t, tasks) + Sum(ts \ {t})
    IN  Sum(of_id)

QueuedOf(id) == Cardinality({i \in DOMAIN queue : queue[i].id = id})

C15_OneEventPerScan ==
    /\ [](\A id \in FolderIds : TasksOf(id) + QueuedOf(id) <= CallsOf(id))
    /\ [][/\ BagCardinality(tasks') <=
                 BagCardinality(tasks) + Len(hist'.loads) - Len(hist.loads)
          /\ Len(hist'.loads) <= Len(hist.loads) + 1
          /\ Len(queue') <= Len(queue) + 1
          /\ Len(queue') = Len(queue) + 1 =>
                \E t \in BagToSet(tasks) :
                    /\ t.pc = "send"
                    /\ queue' = Append(queue, [id |-> t.id, files |-> t.files,
                                                folders |-> t.folders])
                    /\ tasks' = tasks (-) One(t)
          /\ \A t \in BagToSet(tasks) :
                tasks' = tasks (-) One(t) =>
                    IF t.pc = "send" /\ ui # "exited"
                    THEN queue' = Append(queue, [id |-> t.id, files |-> t.files,
                                                 folders |-> t.folders])
                    ELSE queue' = queue]_vars

\* Three calls, two for the root and one for x: the scan of x did not open
\* its directory, the first root event was received, the second is in the
\* channel, and no task is left
C15_Witness ==
    \E x \in FolderIds \ {filesystem.root} :
        /\ hist.loads = <<filesystem.root, filesystem.root, x>>
        /\ x \in hist.failed
        /\ filesystem.root \in DOMAIN hist.first_event
        /\ hist.later_events = {}
        /\ Len(queue) = 1
        /\ queue[1].id = filesystem.root
        /\ tasks = EmptyBag

(***************************************************************************)
(* C16. Only the owning (UI) thread changes the arena: every step of a     *)
(* scanner task (the directory fails to open; it opens and is enumerated   *)
(* and sorted; the send completes; the send fails) leaves the arena        *)
(* unchanged, and the arena changes only in the step in which the consumer *)
(* handles the event at the head of the channel, and then to what          *)
(* init_folder makes of it for that event.                                 *)
(***************************************************************************)
ScannerStep == tasks' # tasks /\ hist'.loads = hist.loads

C16_OnlyOwnerChangesArena ==
    [][/\ ScannerStep => filesystem' = filesystem
       /\ filesystem' # filesystem =>
             /\ HandleStep
             /\ filesystem' = init_folder(filesystem, Head(queue).id,
                                          Head(queue).files, Head(queue).folders)]_vars

\* Scans have failed, sent and are waiting to send, and the consumer has
\* integrated the root and one of its folders
C16_Witness ==
    /\ hist.failed # {}
    /\ \E t \in BagToSet(tasks) : t.pc = "send" /\ t.files # <<>>
    /\ filesystem.folders[filesystem.root].init
    /\ Len(filesystem.folders) > 1
    /\ Len(filesystem.files) > 0

(***************************************************************************)
(* C17. Results of different scans are never merged: in every reachable    *)
(* state each folder either has init = false and both child lists empty,   *)
(* or has init = true and its child files and child folders are exactly    *)
(* the complete file list and the complete folder list of one single event *)
(* received for its id, in that event's order.                             *)
(***************************************************************************)
ReceivedFor(id) ==
    IF id \in DOMAIN hist.first_event
    THEN {hist.first_event[id]} \cup {e \in hist.later_events : e.id = id}
    ELSE {}

ChildFiles(fs, id) ==
    [i \in DOMAIN fs.folders[id].child_files |-> fs.files[fs.folders[id].child_files[i]]]

C17_NoMerge ==
    \A id \in FolderIds :
        \/ /\ ~filesystem.folders[id].init
           /\ filesystem.folders[id].child_files = <<>>
           /\ filesystem.folders[id].child_folders = <<>>
        \/ /\ filesystem.folders[id].init
           /\ \E e \in ReceivedFor(id) :
                 /\ ChildFiles(filesystem, id) = e.files
                 /\ ChildFolderPaths(filesystem, id) = Paths(e.folders)

\* Two events with different, non-empty file and folder lists were received
\* for one folder
C17_Witness ==
    \E id \in DOMAIN hist.first_event : \E e \in ReceivedFor(id) :
        /\ e.files # <<>> /\ e.folders # <<>>
        /\ hist.first_event[id].files # <<>> /\ hist.first_event[id].folders # <<>>
        /\ e.files # hist.first_event[id].files
        /\ e.folders # hist.first_event[id].folders
        /\ filesystem.folders[id].init

(***************************************************************************)
(* C18. An enumeration error in the middle of a scan ends the enumeration  *)
(* but not the scan: every event a scanner puts in the channel is the      *)
(* sorted content of the entries listed before the error, none after it;   *)
(* and a folder whose first received event was cut short has init = true   *)
(* with exactly the children of that event, also after complete events for *)
(* the same folder were received.                                          *)
(***************************************************************************)
\* This step puts an event in the channel
EnqueueStep == Len(queue') = Len(queue) + 1

Enqueued == queue'[Len(queue')]

PayloadNames(p) == AsSet(Names(Paths(p.files))) \cup AsSet(Names(Paths(p.folders)))

ListedNames(path, seen) == {DiskEntries(path)[i].name : i \in 1..seen}

CutShort(p, path) == PayloadNames(p) # ListedNames(path, Len(DiskEntries(path)))

IsPrefixScan(p, path) ==
    /\ \E seen \in 0..Len(DiskEntries(path)) :
          /\ PayloadNames(p) = ListedNames(path, seen)
          /\ Len(p.files) + Len(p.folders) = seen
    /\ InNameOrder(Paths(p.files))
    /\ InNameOrder(Paths(p.folders))

C18_TruncatedScan ==
    /\ [][EnqueueStep =>
             IsPrefixScan(Enqueued, filesystem.folders[Enqueued.id].path)]_vars
    /\ [](\A id \in DOMAIN hist.first_event :
             CutShort(hist.first_event[id], filesystem.folders[id].path) =>
                 /\ filesystem.folders[id].init
                 /\ ChildFiles(filesystem, id) = hist.first_event[id].files
                 /\ ChildFolderPaths(filesystem, id) = Paths(hist.first_event[id].folders))

\* The first event received for a folder held one entry of several, a
\* complete event for it was received later, and the folder still has the
\* one child
C18_Witness ==
    \E id \in DOMAIN hist.first_event : \E e \in hist.later_events :
        /\ e.id = id
        /\ ~CutShort(e, filesystem.folders[id].path)
        /\ CutShort(hist.first_event[id], filesystem.folders[id].path)
        /\ Len(hist.first_event[id].files) + Len(hist.first_event[id].folders) = 1
        /\ Len(filesystem.folders[id].child_files)
               + Len(filesystem.folders[id].child_folders) = 1

(***************************************************************************)
(* C19. Every FolderLoaded event a scanner puts in the channel has a file  *)
(* list and a folder list that are each non-decreasing in the byte order   *)
(* of the entries' final path component, and are disjoint in kind: of      *)
(* the entries enumerated, every directory is in the folder list and every *)
(* other entry is in the file list, each under its parent's path.          *)
(***************************************************************************)
NonDecreasing(names) ==
    \A i, j \in DOMAIN names : i < j => CmpBytes(names[i], names[j]) # "Greater"

KindNames(path, seen, is_dir) ==
    {DiskEntries(path)[i].name : i \in {k \in 1..seen : DiskEntries(path)[k].is_dir = is_dir}}

SortedByKind(p, path) ==
    /\ NonDecreasing(Names(Paths(p.files)))
    /\ NonDecreasing(Names(Paths(p.folders)))
    /\ \A i \in DOMAIN p.files : ParentPath(p.files[i].path) = path
    /\ \A i \in DOMAIN p.folders : ParentPath(p.folders[i].path) = path
    /\ \E seen \in 0..Len(DiskEntries(path)) :
          /\ AsSet(Names(Paths(p.folders))) = KindNames(path, seen, TRUE)
          /\ AsSet(Names(Paths(p.files))) = KindNames(path, seen, FALSE)

C19_EventsSortedByKind ==
    [][EnqueueStep => SortedByKind(Enqueued, filesystem.folders[Enqueued.id].path)]_vars

\* The channel holds the event of a listing that was not in name order: three
\* folders and two files, each list sorted
C19_Witness ==
    \E i \in DOMAIN queue :
        /\ Names(Paths(queue[i].folders)) = <<n_C, n_a, n_b>>
        /\ Names(Paths(queue[i].files)) = <<n_a_txt, n_z_txt>>
        /\ DiskEntries(filesystem.folders[queue[i].id].path)
               = <<Dir(n_b), Reg(n_z_txt), Dir(n_a), Reg(n_a_txt), Dir(n_C)>>

(***************************************************************************)
(* C20, as claimed. After a scan of folder id has failed to open the       *)
(* directory, the folder stays init = false in every later state until     *)
(* load_folder(id) is called again.                                        *)
(***************************************************************************)
C20_UninitUntilCalledAgain ==
    [][\A id \in FolderIds :
          (id \in hist.failed /\ id \notin hist.retried /\ ~filesystem.folders[id].init)
              => ~filesystem'.folders[id].init]_vars

(***************************************************************************)
(* C20, amended. After a scan of folder id has failed to open the          *)
(* directory, the folder stays init = false for as long as no other scan   *)
(* of id is in flight and no event for id is in the channel, so that only  *)
(* a scan dispatched by load_folder(id) can initialise it; and when an     *)
(* event of such a scan is handled while the folder is not initialised,    *)
(* the folder becomes init = true with the children of that event.         *)
(***************************************************************************)
C20_FailedOpenRecoverable ==
    [][\A id \in FolderIds :
          (id \in hist.failed /\ ~filesystem.folders[id].init) =>
              /\ (TasksOf(id) = 0 /\ QueuedOf(id) = 0) => ~filesystem'.folders[id].init
              /\ (HandleStep /\ Head(queue).id = id) =>
                    /\ filesystem'.folders[id].init
                    /\ ChildFiles(filesystem', id) = Head(queue).files
                    /\ ChildFolderPaths(filesystem', id) = Paths(Head(queue).folders)]_vars

\* The only scan of x failed, load_folder(x) was called again, and the event
\* of that second scan was integrated with children
C20_Witness ==
    \E x \in hist.failed \cap hist.retried :
        /\ CallsOf(x) = 2
        /\ x \in DOMAIN hist.first_event
        /\ filesystem.folders[x].init
        /\ filesystem.folders[x].child_files # <<>>
        /\ ChildFiles(filesystem, x) = hist.first_event[x].files

(***************************************************************************)
(* C21. load_folder performs no de-duplication: every call for a folder    *)
(* id, whether the folder is init or not and whether scans of it are in    *)
(* flight or not, is enabled and starts one more scanner task for that id; *)
(* no call cancels or replaces a task already in flight; so n calls for    *)
(* one id can put n events for it in the channel.                          *)
(***************************************************************************)
C21_NoDeduplication ==
    /\ [](ui = "handle_events" /\ Len(hist.loads) < MaxScans =>
             \A id \in FolderIds : ENABLED LoadFolder(id, MaxScans))
    /\ [][\A id \in FolderIds :
             hist'.loads = Append(hist.loads, id) =>
                 /\ TasksOf(id)' = TasksOf(id) + 1
                 /\ BagCardinality(tasks') = BagCardinality(tasks) + 1
                 /\ \A t \in BagToSet(tasks) : CopiesIn(t, tasks') >= CopiesIn(t, tasks)]_vars

\* Three calls for the root: the event of one scan has initialised the root,
\* the events of the two others are in the channel
C21_Witness ==
    /\ hist.loads = <<filesystem.root, filesystem.root, filesystem.root>>
    /\ filesystem.folders[filesystem.root].init
    /\ QueuedOf(filesystem.root) = 2
    /\ hist.later_events = {}
    /\ tasks = EmptyBag

(***************************************************************************)
(* C22. The channel is a FIFO queue: a completed send puts its event       *)
(* behind all events already in the channel, the consumer takes the event  *)
(* at the front and calls init_folder with it, and nothing else changes    *)
(* the channel while the receiver lives; so the consumer calls init_folder *)
(* for the events in exactly the order in which their sends completed.     *)
(***************************************************************************)
C22_ChannelFifo ==
    [][queue' # queue =>
          \/ /\ \E t \in BagToSet(tasks) :
                    /\ t.pc = "send"
                    /\ queue' = Append(queue, FolderLoaded(t))
                    /\ tasks' = tasks (-) One(t)
              /\ filesystem' = filesystem
          \/ /\ ui = "handle_events" /\ ui' = "draw"
              /\ queue # <<>> /\ queue' = Tail(queue)
              /\ filesystem' = init_folder(filesystem, Head(queue).id,
                                           Head(queue).files, Head(queue).folders)
              /\ hist' = Received(hist, Head(queue))
          \/ ui' = "exited" /\ queue' = <<>>]_vars

\* The events of two folders wait in the channel, after the consumer has
\* handled an earlier one
C22_Witness ==
    /\ Len(queue) = 2
    /\ queue[1].id # queue[2].id
    /\ queue[1].id # filesystem.root
    /\ filesystem.root \in DOMAIN hist.first_event

(***************************************************************************)
(* C23. Once the receiver is dropped the send of a scanner fails: the      *)
(* scanner ends there without starting its scan again, its result is       *)
(* discarded (no event reaches the channel) and the arena stays as it is;  *)
(* a scanner waiting at send after the drop can always take this step.     *)
(***************************************************************************)
C23_SendFailureDiscards ==
    /\ [](ui = "exited" =>
             /\ queue = <<>>
             /\ \A t \in BagToSet(tasks) : t.pc = "send" => ENABLED SendFail(t))
    /\ [][ui = "exited" =>
             /\ queue' = queue /\ filesystem' = filesystem /\ ui' = ui
             /\ \A t \in BagToSet(tasks) :
                    t.pc = "send" /\ CopiesIn(t, tasks') < CopiesIn(t, tasks) =>
                        /\ tasks' = tasks (-) One(t)
                        /\ t.id \in hist'.send_failed]_vars

\* The send of a complete scan of the root failed: the scanner is gone, the
\* root is still the placeholder
C23_Witness ==
    /\ ui = "exited"
    /\ filesystem.root \in hist.send_failed
    /\ tasks = EmptyBag
    /\ queue = <<>>
    /\ ~filesystem.folders[filesystem.root].init
    /\ hist.failed = {}

(***************************************************************************)
(* C24. Under fair scheduling of the scanner tasks and of the consumer's   *)
(* receive branch every dispatched scan terminates, also with more scans   *)
(* in flight than the channel has room for: no scanner stays suspended at  *)
(* its send forever. A scanner that has listed its directory goes on to    *)
(* its send, and a scanner ends in one of three ways: the directory failed *)
(* to open, its event is in the channel, or the send failed because the    *)
(* receiver was gone.                                                      *)
(***************************************************************************)
C24_ScansTerminate ==
    /\ <>(tasks = EmptyBag)
    /\ [][\A t \in BagToSet(tasks) :
             CopiesIn(t, tasks') < CopiesIn(t, tasks) =>
                 \/ /\ t.pc = "read_dir"
                     /\ \E t2 \in BagToSet(tasks') :
                            /\ t2.id = t.id /\ t2.pc = "send"
                            /\ tasks' = (tasks (-) One(t)) (+) One(t2)
                     /\ queue' = queue
                 \/ /\ t.pc = "read_dir"
                     /\ tasks' = tasks (-) One(t)
                     /\ t.id \in hist'.failed /\ queue' = queue
                 \/ /\ t.pc = "send" /\ ui # "exited"
                     /\ tasks' = tasks (-) One(t)
                     /\ queue' = Append(queue, FolderLoaded(t))
                 \/ /\ t.pc = "send" /\ ui = "exited"
                     /\ tasks' = tasks (-) One(t)
                     /\ t.id \in hist'.send_failed /\ queue' = queue]_vars

\* All scans have ended, and each of the three ways has been taken
C24_Witness ==
    /\ tasks = EmptyBag
    /\ Len(hist.loads) > Capacity
    /\ filesystem.root \in hist.failed
    /\ filesystem.root \in hist.send_failed
    /\ filesystem.root \in DOMAIN hist.first_event

(***************************************************************************)
(* C25. Every event sent is consumed exactly once: the consumer handles    *)
(* only the event at the front of the channel and removes it in the same   *)
(* step, and an event leaves the channel only by being passed to           *)
(* init_folder or when the exit drops the receiver. Under fairness of the  *)
(* receive branch the channel is drained as long as the loop has not       *)
(* exited, so the folder of a sent event eventually has init = true.       *)
(***************************************************************************)
C25_EventsConsumedOnce ==
    /\ [][hist'.first_event # hist.first_event \/ hist'.later_events # hist.later_events =>
             /\ queue # <<>>
             /\ hist' = Received(hist, Head(queue))
             /\ queue' = Tail(queue)]_vars
    /\ [][Len(queue') < Len(queue) =>
             \/ /\ HandleStep
                 /\ filesystem' = init_folder(filesystem, Head(queue).id,
                                              Head(queue).files, Head(queue).folders)
             \/ ui' = "exited"]_vars
    /\ (\E i \in 1..Len(queue) : queue[i].id = filesystem.root)
           ~> (filesystem.folders[filesystem.root].init \/ ui = "exited")
    /\ []<>(queue = <<>>)

\* The loop is alive, every scan has sent its event and the consumer has
\* handled them all
C25_Witness ==
    /\ ui # "exited"
    /\ tasks = EmptyBag /\ queue = <<>>
    /\ hist.failed = {} /\ hist.send_failed = {}
    /\ hist.later_events # {}
    /\ filesystem.folders[filesystem.root].init

(***************************************************************************)
(* C26. folder_paths is the set of the initialised folders: a path is a    *)
(* key exactly when a folder with that path has init = true, the value is  *)
(* the id of that folder, and no other folder has that path; placeholders  *)
(* and folders whose scans failed have no entry.                           *)
(***************************************************************************)
C26_FolderPathsAreInitFolders ==
    /\ DOMAIN filesystem.folder_paths =
           {filesystem.folders[id].path : id \in {i \in FolderIds : filesystem.folders[i].init}}
    /\ \A id \in FolderIds :
           filesystem.folders[id].init =>
               filesystem.folder_paths[filesystem.folders[id].path] = id

\* Root and one child are registered, another child is a placeholder and the
\* scan of a third failed
C26_Witness ==
    /\ Cardinality(DOMAIN filesystem.folder_paths) = 2
    /\ filesystem.folders[filesystem.root].init
    /\ \E id \in FolderIds \ {filesystem.root} : filesystem.folders[id].init
    /\ \E id \in hist.failed : ~filesystem.folders[id].init
    /\ \E id \in FolderIds \ hist.failed :
           ~filesystem.folders[id].init /\ id \notin AsSet(hist.loads)

(***************************************************************************)
(* C27. Identifiers are fresh and the arena stays a tree: the ids that an  *)
(* init_folder call records as children are not ids the arena held before  *)
(* the call, and in every state each folder id other than the root is in   *)
(* exactly one slot of exactly one child_folders list, each file id in     *)
(* exactly one slot of exactly one child_files list, and the root in none. *)
(***************************************************************************)
ChildFolderSlots(fs) ==
    UNION {{<<f, i>> : i \in DOMAIN fs.folders[f].child_folders} : f \in DOMAIN fs.folders}

ChildFileSlots(fs) ==
    UNION {{<<f, i>> : i \in DOMAIN fs.folders[f].child_files} : f \in DOMAIN fs.folders}

ArenaIsTree(fs) ==
    /\ \A id \in DOMAIN fs.folders :
           Cardinality({s \in ChildFolderSlots(fs) :
                           fs.folders[s[1]].child_folders[s[2]] = id})
               = IF id = fs.root THEN 0 ELSE 1
    /\ \A id \in DOMAIN fs.files :
           Cardinality({s \in ChildFileSlots(fs) :
                           fs.folders[s[1]].child_files[s[2]] = id}) = 1

C27_FreshIdsArenaIsTree ==
    /\ []ArenaIsTree(filesystem)
    /\ [][HandleStep /\ filesystem' # filesystem =>
             LET id == Head(queue).id
             IN  /\ AsSet(filesystem'.folders[id].child_folders) \cap FolderIds = {}
                 /\ AsSet(filesystem'.folders[id].child_files) \cap FileIds = {}]_vars

(***************************************************************************)
(* C28. No arena lookup uses a stale id: in every state the root id, every *)
(* id in a child list, every value of folder_paths, the id captured by     *)
(* every scanner in flight and the id of every event in the channel is the *)
(* key of a record in its store.                                           *)
(***************************************************************************)
C28_NoStaleId ==
    /\ filesystem.root \in FolderIds
    /\ \A id \in FolderIds :
           /\ AsSet(filesystem.folders[id].child_folders) \subseteq FolderIds
           /\ AsSet(filesystem.folders[id].child_files) \subseteq FileIds
    /\ \A p \in DOMAIN filesystem.folder_paths : filesystem.folder_paths[p] \in FolderIds
    /\ \A t \in BagToSet(tasks) : t.id \in FolderIds
    /\ \A i \in DOMAIN queue : queue[i].id \in FolderIds

\* Child records exist, a scanner holds the id of a child folder and an
\* event for a child folder waits in the channel
C28_Witness ==
    /\ filesystem.folders[filesystem.root].child_folders # <<>>
    /\ filesystem.folders[filesystem.root].child_files # <<>>
    /\ \E t \in BagToSet(tasks) : t.id # filesystem.root
    /\ \E i \in DOMAIN queue : queue[i].id # filesystem.root

RECURSIVE ListedBelow(_, _, _)
ListedBelow(fs, id, depth) ==
    LET folder == fs.folders[id]
        OfFolder(child_id) ==
            LET child == fs.folders[child_id]
            IN  IF child.name = n_git THEN <<>>
                ELSE <<FolderLine(child, depth)>>
                     \o (IF child.open THEN ListedBelow(fs, child_id, depth + 1) ELSE <<>>)
        Folders[i \in 0..Len(folder.child_folders)] ==
            IF i = 0 THEN <<>> ELSE Folders[i - 1] \o OfFolder(folder.child_folders[i])
        Files == [i \in 1..Len(folder.child_files) |->
                     FileLine(fs.files[folder.child_files[i]], depth)]
    IN  Folders[Len(folder.child_folders)] \o Files

IsPrefixOf(short, long) ==
    Len(short) <= Len(long) /\ short = SubSeq(long, 1, Len(short))

C30_TraversalOrder ==
    [](LET full == ListedBelow(filesystem, filesystem.root, 0)
       IN  \A n \in 0..MaxBudget :
               LET shown == RenderLines(filesystem, n)
               IN  /\ IsPrefixOf(shown, full)
                   /\ n >= Len(full) => shown = full
                   /\ n <= Len(full) => Len(shown) >= n)

\* The root holds .git, src and a file, src is open and holds folders and
\* files, and the budget covers the whole listing
C30_Witness ==
    LET root == filesystem.folders[filesystem.root]
    IN  /\ Len(root.child_folders) = 2 /\ Len(root.child_files) = 1
        /\ \E i \in 1..2 : filesystem.folders[root.child_folders[i]].name = n_git
        /\ \E i \in 1..2 :
               LET src == filesystem.folders[root.child_folders[i]]
               IN  src.open /\ Len(src.child_folders) = 3 /\ Len(src.child_files) = 2
        /\ Len(ListedBelow(filesystem, filesystem.root, 0)) = 7
        /\ RenderLines(filesystem, MaxBudget) = ListedBelow(filesystem, filesystem.root, 0)

(***************************************************************************)
(* The cursor in the buffer.                                               *)
(***************************************************************************)
\* The cursor is on a line of the rope, at most at its last valid index
ValidCursor(cursor, rope) ==
    /\ cursor.y < len_lines(rope)
    /\ cursor.x <= last_valid_line_index(cursor, rope)

(***************************************************************************)
(* C31. Cursor validity: starting from the cursor (0, 0) on any buffer,    *)
(* after any sequence of the cursor's edits and moves the cursor is on a   *)
(* line of the rope (y < number of lines) and x is at most the last valid  *)
(* index of that line (its length without a trailing LF or CR LF).         *)
(***************************************************************************)
C31_CursorValid == ValidCursor(app.cursor, app.rope)

\* The text without the char at idx
WithoutChar(text, idx) == SubSeq(text, 1, idx) \o SubSeq(text, idx + 2, Len(text))

(***************************************************************************)
(* C32. Cursor::delete_prev_char at char index i: when i > 0 the buffer    *)
(* afterwards is the old one without the char at i - 1 and the cursor's    *)
(* char index is i - 1, also when the deleted char is the line break that  *)
(* joins two lines; when i = 0 the buffer and the cursor are unchanged.    *)
(* Stated for the cursors that are valid in their rope.                    *)
(***************************************************************************)
C32_DeletePrevChar ==
    LET i == cursor_char_index(app.cursor, app.rope)
        after == delete_prev_char(app.cursor, app.rope)
    IN  ValidCursor(app.cursor, app.rope) =>
            IF i > 0
            THEN /\ after.rope.text = WithoutChar(app.rope.text, i - 1)
                 /\ cursor_char_index(after.cursor, after.rope) = i - 1
            ELSE after = [cursor |-> app.cursor, rope |-> app.rope]

\* The cursor after one of the lateral moves: move_left, move_right,
\* move_line_start, move_line_end, or set_position to a column and a row
LateralMoves(cursor, rope) ==
    {move_left(cursor, rope), move_right(cursor, rope),
     move_line_start(cursor, rope), move_line_end(cursor, rope)}
    \cup {set_position(cursor, Usize(x), y, rope) : x \in 0..MaxRope, y \in 0..MaxRow}

\* The cursor after move_up or move_down
VerticalMoves(cursor, rope) == {move_up(cursor, rope), move_down(cursor, rope)}

(***************************************************************************)
(* C33. Preferred column: move_up and move_down never change preferred_x,  *)
(* and when they change the line they set x to the smaller of preferred_x  *)
(* and the last valid index of the new line; after every call of           *)
(* move_left, move_right, move_line_start, move_line_end or set_position,  *)
(* preferred_x equals x.                                                   *)
(***************************************************************************)
C33_PreferredX ==
    /\ \A moved \in VerticalMoves(app.cursor, app.rope) :
           /\ moved.preferred_x = app.cursor.preferred_x
           /\ moved.y # app.cursor.y =>
                  moved.x = Min(moved.preferred_x, last_valid_line_index(moved, app.rope))
    /\ \A moved \in LateralMoves(app.cursor, app.rope) : moved.preferred_x = moved.x

(***************************************************************************)
(* The command line and the modes.                                         *)
(***************************************************************************)
\* The App and its file tree, as the handlers take them
Editor == [app |-> app, filetree |-> filesystem]

(***************************************************************************)
(* C34. The command line captures the keys: Cmdline::handle_key_event      *)
(* returns true for every key while the command line is open; while it is  *)
(* closed it returns false and leaves the command line as it was; and      *)
(* while the command line is open no key event changes the mode, the rope  *)
(* or the cursor of the buffer.                                            *)
(***************************************************************************)
C34_CmdlineCaptures ==
    \A key_event \in Keys :
        LET captured == Cmdline_handle_key_event(app.cmdline, key_event)
            after == App_handle_key_event(Editor, key_event).app
        IN  /\ app.cmdline.open =>
                   /\ captured.handled
                   /\ after.mode = app.mode
                   /\ after.rope = app.rope
                   /\ after.cursor = app.cursor
            /\ ~app.cmdline.open =>
                   /\ ~captured.handled
                   /\ captured.cmdline = app.cmdline

\* The command line is open with text in it, over a buffer of two lines
\* whose cursor is off the origin: keys such as h, k, 0 and Backspace would
\* move the cursor or edit the buffer if they reached the mode's handler
C34_Witness ==
    /\ app.cmdline.open
    /\ app.cmdline.command = <<c_a>>
    /\ len_lines(app.rope) >= 2
    /\ app.cursor.y = 1
    /\ app.cursor.x = 1

(***************************************************************************)
(* C35. The cursor of the command line stays inside the command:           *)
(* 0 <= cursor <= number of chars of the command; and while the command    *)
(* line is closed the command is empty and the cursor is 0.                *)
(***************************************************************************)
C35_CmdlineCursor ==
    /\ app.cmdline.cursor >= 0
    /\ app.cmdline.cursor <= Len(app.cmdline.command)
    /\ ~app.cmdline.open => app.cmdline.command = <<>> /\ app.cmdline.cursor = 0

\* The command line was closed after text was typed into it and the cursor
\* was moved inside the text: the state before the closing key
C35_Witness ==
    /\ app.cmdline.open
    /\ Len(app.cmdline.command) = MaxCmd
    /\ app.cmdline.cursor = 1
    /\ ~Cmdline_handle_key_event(app.cmdline, Key("Esc")).cmdline.open
    /\ ~Cmdline_handle_key_event(app.cmdline, Key("Enter")).cmdline.open

\* What each key would do in the current state
KeysRespectMode ==
    \A key_event \in Keys :
        LET after == App_handle_key_event(Editor, key_event).app
        IN  /\ after.rope # app.rope => app.mode = "Insert" /\ ~app.cmdline.open
            /\ app.mode \in {"Normal", "Visual"} => after.rope = app.rope
            /\ key_event.code = "Esc" /\ app.mode \in {"Insert", "Visual"} =>
                   after.mode = "Normal"

(***************************************************************************)
(* C36. Modes: the rope changes only in a step taken in insert mode with   *)
(* the command line closed; the keys of normal and visual mode leave the   *)
(* rope unchanged; and Esc in insert or visual mode always leads to normal *)
(* mode.                                                                   *)
(***************************************************************************)
C36_ModesGuardRope ==
    /\ []KeysRespectMode
    /\ [][app'.rope # app.rope => app.mode = "Insert" /\ ~app.cmdline.open]_vars

\* Insert mode over a buffer that Enter, and Delete or Backspace, would change
C36_Witness ==
    /\ app.mode = "Insert"
    /\ ~app.cmdline.open
    /\ App_handle_key_event(Editor, Key("Enter")).app.rope # app.rope
    /\ \E code \in {"Delete", "Backspace"} :
           App_handle_key_event(Editor, Key(code)).app.rope # app.rope
    /\ App_handle_key_event(Editor, Key("Esc")).app.mode = "Normal"

(***************************************************************************)
(* The mouse and the scrolling.                                            *)
(***************************************************************************)
(***************************************************************************)
(* C37. A press of the left mouse button at any column and row is handled  *)
(* without integer underflow: x - x_margin - filetree_offset neither wraps *)
(* nor panics, also for a click in the gutter or in the file-tree panel,   *)
(* and the cursor ends at a valid position.                                *)
(***************************************************************************)
C37_ClickNoUnderflow ==
    /\ ~app.panicked
    /\ ui = "handle_events" =>
           \A column \in Columns, row \in 0..MaxRow, overflow_checks \in BOOLEAN :
               LET clicked == handle_left_click(Editor, column, row, overflow_checks).app
               IN  /\ ~ClickOverflows(Editor, column)
                   /\ ~clicked.panicked
                   /\ ValidCursor(clicked.cursor, clicked.rope)

(***************************************************************************)
(* C38. After the autoscroll of a rendering pass, for every cursor row,    *)
(* previous scroll offset, margin and height line_count >= 1 of the area,  *)
(* the cursor's row is inside the window:                                  *)
(* scroll_y <= cursor.y < scroll_y + line_count, so that the subtraction   *)
(* cursor.y - scroll_y of Pane::cursor_position never underflows.          *)
(***************************************************************************)
C38_CursorInWindow ==
    ui = "handle_events" =>
        /\ app.scroll_y <= app.cursor.y
        /\ app.cursor.y < app.scroll_y + app.screen_y
        /\ ~usize_sub_overflows(Usize(app.cursor.y), app.scroll_y)

====
